---- MODULE Spec2Model ----
(***************************************************************************)
(* Model of the email-extractor crawl engine: core.py (EmailExtractor:     *)
(* crawl_domain, process_search), worker.py (worker loop) and api.py (the  *)
(* REST operations that write the searches and domains tables).            *)
(*                                                                         *)
(* One action is one run of a coroutine between two suspension points; a   *)
(* database statement is executed atomically (autocommit connections).     *)
(***************************************************************************)
EXTENDS Integers, Sequences, FiniteSets, TLC

(***************************************************************************)
(* Bounds of the model.                                                    *)
(***************************************************************************)
MaxOutages == 1        \* database outages during a behaviour
MaxBackground == 1     \* background tasks the REST surface may have queued
MaxDepthLimit == 1     \* max_depth ranges over 0..MaxDepthLimit
MaxLinks == 2          \* links on one fetched page
MaxRaw == 2            \* raw e-mail strings on one fetched page
MaxRows == 2           \* searches in the tables that the queries are applied to
MaxDomains == 2        \* entries of the domains list of one create_search request
MaxCreated == 1        \* create_search requests that insert a search
MaxHost == 8           \* characters of the host of a URL that is normalized
MaxBlanks == 1         \* whitespace characters between two parts of a written address

(***************************************************************************)
(* Program constants.                                                      *)
(***************************************************************************)
BatchSize == 50        \* core.py: batch_size = min(50, len(queue)), len(tasks) >= 50
MaxErrorMessage == 500 \* core.py: str(e)[:500]

NULL == "NULL"
NOW == "NOW"

\* URLs of one site: the start URL of the Domain and two in-scope pages.
StartUrl == "https://a.test"
Urls == {StartUrl, "https://a.test/contact", "https://a.test/blog/2024"}

\* EMAIL_PATHS tokens that occur in Urls (substring test of `path in link.lower()`).
IsPriority(link) == link \in {"https://a.test/contact"}

\* worker processes (worker.py) and background tasks of the API (api.py)
Workers == {"worker-1"}
Background == {"worker-bg1"}
Runners == Workers \cup Background

(***************************************************************************)
(* Sequences helpers.                                                      *)
(***************************************************************************)
Range(s) == {s[i] : i \in 1..Len(s)}

\* all the orders in which a finite set can be iterated
Orders(S) == {s \in [1..Cardinality(S) -> S] : Range(s) = S}

RECURSIVE SortedSeq(_)
SortedSeq(S) ==
    IF S = {} THEN <<>>
    ELSE LET m == CHOOSE x \in S : \A y \in S : x <= y
         IN  <<m>> \o SortedSeq(S \ {m})

SubsetsUpTo(S, n) == {T \in SUBSET S : Cardinality(T) <= n}

(***************************************************************************)
(* normalize_email: strings are sequences of one-character strings.        *)
(***************************************************************************)
LowerChar(c) ==
    CASE c = "B" -> "b"
      [] c = "E" -> "e"
      [] c = "X" -> "x"
      [] c = "W" -> "w"
      [] c = "A" -> "a"
      [] c = "T" -> "t"
      [] c = "D" -> "d"
      [] c = "O" -> "o"
      [] OTHER -> c

Lower(s) == [i \in 1..Len(s) |-> LowerChar(s[i])]

RECURSIVE RStrip(_, _)
RStrip(s, chars) ==
    IF s # <<>> /\ s[Len(s)] \in chars THEN RStrip(SubSeq(s, 1, Len(s) - 1), chars)
    ELSE s

RECURSIVE LStrip(_, _)
LStrip(s, chars) ==
    IF s # <<>> /\ s[1] \in chars THEN LStrip(Tail(s), chars)
    ELSE s

Strip(s, chars) == LStrip(RStrip(s, chars), chars)

\* validate_email(check_deliverability=False): one "@", a local part, a
\* domain with an inner period.
ValidEmail(s) ==
    /\ Cardinality({i \in 1..Len(s) : s[i] = "@"}) = 1
    /\ LET at == CHOOSE i \in 1..Len(s) : s[i] = "@"
       IN  /\ at > 1
           /\ \A i \in 1..(at - 1) : s[i] \notin {" ", "<", ">", "(", ")", "[", "]"}
           /\ \E i \in (at + 2)..(Len(s) - 1) : s[i] = "."
           /\ s[at + 1] # "."
           /\ s[Len(s)] # "."
           /\ \A i \in (at + 1)..Len(s) : s[i] \notin {" ", "<", ">", "(", ")", "[", "]", ";"}

normalize_email(email) ==
    LET e1 == Strip(Lower(email), {" "})
        e2 == RStrip(e1, {".", ",", ";", ":", "!", "?"})
        e3 == Strip(e2, {"<", ">", "(", ")", "[", "]", "{", "}", "\"", "'", " "})
    IN  IF ValidEmail(e3) THEN e3 ELSE <<>>   \* None

(***************************************************************************)
(* normalize_url: a URL is a sequence of characters.                       *)
(***************************************************************************)
Https == <<"h", "t", "t", "p", "s", ":", "/", "/">>
Http  == <<"h", "t", "t", "p", ":", "/", "/">>
Www   == <<"w", "w", "w", ".">>

\* str.startswith
StartsWith(s, p) == Len(s) >= Len(p) /\ SubSeq(s, 1, Len(p)) = p

\* position of the first character of s that is in chars, Len(s) + 1 if none
Find(s, chars) ==
    IF \E i \in 1..Len(s) : s[i] \in chars
    THEN CHOOSE i \in 1..Len(s) : s[i] \in chars /\ \A j \in 1..(i - 1) : s[j] \notin chars
    ELSE Len(s) + 1

\* position of the last character of s that is in chars, 0 if none
RFind(s, chars) ==
    IF \E i \in 1..Len(s) : s[i] \in chars
    THEN CHOOSE i \in 1..Len(s) : s[i] \in chars /\ \A j \in (i + 1)..Len(s) : s[j] \notin chars
    ELSE 0

\* str.replace('www.', ''): every occurrence found from left to right
RECURSIVE ReplaceWww(_)
ReplaceWww(s) ==
    IF Len(s) < Len(Www) THEN s
    ELSE IF StartsWith(s, Www) THEN ReplaceWww(SubSeq(s, Len(Www) + 1, Len(s)))
    ELSE <<Head(s)>> \o ReplaceWww(Tail(s))

\* urlparse of a URL that starts with http:// or https://, without
\* brackets, control characters or blanks: the netloc ends at the first "/",
\* "?" or "#"; the fragment is cut first, then the query, then the
\* parameters of the last path segment
urlparse(url) ==
    LET scheme == SubSeq(url, 1, Find(url, {":"}) - 1)
        rest == SubSeq(url, Len(scheme) + 4, Len(url))
        netloc == SubSeq(rest, 1, Find(rest, {"/", "?", "#"}) - 1)
        tail == SubSeq(rest, Len(netloc) + 1, Len(rest))
        nofrag == SubSeq(tail, 1, Find(tail, {"#"}) - 1)
        full == SubSeq(nofrag, 1, Find(nofrag, {"?"}) - 1)
        segment == SubSeq(full, RFind(full, {"/"}) + 1, Len(full))
        path == SubSeq(full, 1, RFind(full, {"/"}) + Find(segment, {";"}) - 1)
    IN  [scheme |-> scheme, netloc |-> netloc, path |-> path]

\* urlunparse((scheme, netloc, path, '', '', '')) for a path that is empty or
\* starts with one "/"
urlunparse(scheme, netloc, path) == scheme \o <<":", "/", "/">> \o netloc \o path

normalize_url(url) ==
    IF url = <<>> THEN url
    ELSE LET u == IF StartsWith(url, Http) \/ StartsWith(url, Https) THEN url
                  ELSE Https \o url
             parsed == urlparse(u)
             netloc == ReplaceWww(Lower(parsed.netloc))
             path == IF RStrip(parsed.path, {"/"}) = <<>> THEN <<"/">>
                     ELSE RStrip(parsed.path, {"/"})
         IN  urlunparse(parsed.scheme, netloc, path)

\* hosts, and what follows the host, of the URLs that are normalized
Hosts ==
    UNION {[1..k -> {"w", "."}] : k \in 0..MaxHost}
    \cup {<<"a", ".", "t">>, <<"W", "W", "W", ".", "A", ".", "t">>,
          <<"w", "w", "w", ".", "w", "w", "w", ".", "a", ".", "t">>,
          <<"a", ".", "w", "w", "w", ".", "t">>}
Paths == {<<>>, <<"/">>, <<"/", "a">>, <<"/", "a", "/">>, <<"/", "a", "/", "/">>,
          <<"/", "A", "?", "a">>, <<"/", "a", "#", "a">>, <<"?", "a", "/">>,
          <<"/", "a", ";", "a">>, <<"/", "a", ";", "a", "/">>}
UrlInputs == {pre \o host \o path : pre \in {<<>>, Http, Https}, host \in Hosts,
                                    path \in Paths}

(***************************************************************************)
(* extract_emails_from_html: a page is the hrefs of its anchors and its    *)
(* text (soup.get_text()), each a sequence of characters.                  *)
(***************************************************************************)
LetterChars == {"a", "b", "d", "e", "i", "o", "t", "x", "w",
                "A", "B", "D", "E", "O", "T", "X", "W"}
UserChars == LetterChars \cup {".", "_", "%", "+", "-"}     \* [A-Za-z0-9._%+-]
HostChars == LetterChars \cup {".", "-"}                    \* [A-Za-z0-9.-]
TldChars == LetterChars \cup {"|"}                          \* [A-Z|a-z]
WordChars == LetterChars \cup {"_"}                         \* \w
Blanks == {" ", "\n"}                                       \* \s

\* the position after the longest run of characters of chars that starts at p
SkipWhile(s, p, chars) ==
    CHOOSE q \in p..(Len(s) + 1) :
        /\ \A j \in p..(q - 1) : s[j] \in chars
        /\ q = Len(s) + 1 \/ s[q] \notin chars

\* the literal token is at position p of s
TokenAt(s, p, token, ignorecase) ==
    /\ p + Len(token) - 1 <= Len(s)
    /\ LET found == SubSeq(s, p, p + Len(token) - 1)
       IN  IF ignorecase THEN Lower(found) = Lower(token) ELSE found = token

\* OBFUSCATED_PATTERNS: (user)\s*AT\s*(host)\s*DOT\s*(tld), tld of two
\* letters or more
OBFUSCATED_PATTERNS ==
    << [at |-> <<"[", "a", "t", "]">>, dot |-> <<"[", "d", "o", "t", "]">>, ignorecase |-> TRUE],
       [at |-> <<"(", "a", "t", ")">>, dot |-> <<"(", "d", "o", "t", ")">>, ignorecase |-> TRUE],
       [at |-> <<"[", "A", "T", "]">>, dot |-> <<"[", "D", "O", "T", "]">>, ignorecase |-> FALSE],
       [at |-> <<"@">>, dot |-> <<".">>, ignorecase |-> FALSE],
       [at |-> <<"(", "a", ")">>, dot |-> <<"(", "d", "o", "t", ")">>, ignorecase |-> TRUE] >>

\* where the tld starts when \s*DOT\s* matches at position p, otherwise 0
TldStart(s, p, pat) ==
    LET d == SkipWhile(s, p, Blanks)
    IN  IF TokenAt(s, d, pat.dot, pat.ignorecase)
        THEN SkipWhile(s, d + Len(pat.dot), Blanks) ELSE 0

\* the end of the tld when \s*DOT\s*(tld) matches at position p, otherwise 0
DotTldEnd(s, p, pat) ==
    LET t == TldStart(s, p, pat)
        e == SkipWhile(s, t, LetterChars)
    IN  IF t # 0 /\ e - t >= 2 THEN e ELSE 0

\* the match of an obfuscated pattern that starts at position p: the
\* quantifiers are greedy, the host gives characters back until the rest
\* of the pattern matches
ObfuscatedAt(s, p, pat) ==
    LET u == SkipWhile(s, p, UserChars)
        a == SkipWhile(s, u, Blanks)
        h == SkipWhile(s, a + Len(pat.at), Blanks)
        ends == {e \in (h + 1)..SkipWhile(s, h, HostChars) : DotTldEnd(s, e, pat) # 0}
        he == CHOOSE e \in ends : \A f \in ends : f <= e
        te == DotTldEnd(s, he, pat)
    IN  IF u > p /\ TokenAt(s, a, pat.at, pat.ignorecase) /\ h <= Len(s) /\ ends # {}
        THEN [found |-> TRUE, end |-> te,
              text |-> SubSeq(s, p, u - 1) \o <<"@">> \o SubSeq(s, h, he - 1) \o <<".">>
                       \o SubSeq(s, TldStart(s, he, pat), te - 1)]
        ELSE [found |-> FALSE, end |-> p, text |-> <<>>]

\* pattern.sub(r'\1@\2.\3', text) from position p on
RECURSIVE Sub(_, _, _)
Sub(s, p, pat) ==
    IF p > Len(s) THEN <<>>
    ELSE LET m == ObfuscatedAt(s, p, pat)
         IN  IF m.found THEN m.text \o Sub(s, m.end, pat)
             ELSE <<s[p]>> \o Sub(s, p + 1, pat)

\* for pattern, replacement in self.OBFUSCATED_PATTERNS: text = pattern.sub(...)
RECURSIVE Deobfuscate(_, _)
Deobfuscate(s, i) ==
    IF i > Len(OBFUSCATED_PATTERNS) THEN s
    ELSE Deobfuscate(Sub(s, 1, OBFUSCATED_PATTERNS[i]), i + 1)

\* \b at position p: a word character on exactly one side
Boundary(s, p) ==
    (p > 1 /\ s[p - 1] \in WordChars) # (p <= Len(s) /\ s[p] \in WordChars)

\* ends of a match of EMAIL_PATTERN that starts at p: the domain is cut at a
\* period that letters follow up to a word boundary
EmailEnds(s, p) ==
    LET at == SkipWhile(s, p + 1, UserChars)
        last == SkipWhile(s, at + 2, HostChars)
    IN  IF /\ Boundary(s, p) /\ s[p] \in LetterChars
           /\ at <= Len(s) /\ s[at] = "@"
           /\ at + 1 <= Len(s) /\ s[at + 1] \in LetterChars
        THEN {e \in (at + 4)..(Len(s) + 1) :
                \E k \in (at + 2)..last :
                    /\ k <= e - 3 /\ k <= Len(s) /\ s[k] = "."
                    /\ \A j \in (k + 1)..(e - 1) : s[j] \in TldChars
                    /\ Boundary(s, e)}
        ELSE {}

\* EMAIL_PATTERN.findall(text) from position p on: the matches do not overlap
\* and each is the longest one at its start
RECURSIVE FindAll(_, _)
FindAll(s, p) ==
    IF p > Len(s) THEN {}
    ELSE IF EmailEnds(s, p) = {} THEN FindAll(s, p + 1)
    ELSE LET e == CHOOSE x \in EmailEnds(s, p) : \A y \in EmailEnds(s, p) : y <= x
         IN  {SubSeq(s, p, e - 1)} \cup FindAll(s, e)

Mailto == <<"m", "a", "i", "l", "t", "o", ":">>

\* href[7:].split('?')[0].strip() of the mailto: anchors, without the empty ones
MailtoEmails(hrefs) ==
    {e \in {Strip(SubSeq(SubSeq(h, Len(Mailto) + 1, Len(h)), 1,
                         Find(SubSeq(h, Len(Mailto) + 1, Len(h)), {"?"}) - 1), Blanks) :
              h \in {g \in hrefs : StartsWith(g, Mailto)}} : e # <<>>}

extract_emails_from_html(page) ==
    MailtoEmails(page.hrefs) \cup FindAll(Deobfuscate(page.text, 1), 1)

\* process_url: the normalized forms of the raw e-mails of a page
NormalizedEmails(raws) == {normalize_email(e) : e \in raws} \ {<<>>}

\* pages that carry the address b@x.io once: written in the text with one of
\* the obfuscations, between other words, or as the target of a mailto: anchor
BlankRuns == UNION {[1..k -> Blanks] : k \in 0..MaxBlanks}
Written ==
    {user \o g1 \o pat.at \o g2 \o <<"x">> \o g3 \o pat.dot \o g4 \o <<"i", "o">> :
        user \in {<<"b">>, <<"B">>}, pat \in Range(OBFUSCATED_PATTERNS),
        g1 \in BlankRuns, g2 \in BlankRuns, g3 \in BlankRuns, g4 \in BlankRuns}
Before == {<<>>, <<"a", "t", " ">>}
After == {<<>>, <<" ", "e", "b">>, <<".">>, <<".", " ", "E", "b">>}
TextPages == {[hrefs |-> {}, text |-> b \o w \o a] : b \in Before, w \in Written, a \in After}
MailtoPages ==
    {[hrefs |-> {Mailto \o g1 \o user \o <<"@", "x", ".", "i", "o">> \o g2 \o q}, text |-> <<>>] :
        user \in {<<"b">>, <<"B">>}, g1 \in BlankRuns, g2 \in BlankRuns,
        q \in {<<>>, <<"?", "a", "=", "b">>, <<"?", "a", "=", "b", "@", "x", ".", "i", "o">>}}
EmailPages == TextPages \cup MailtoPages

\* raw e-mail strings that extract_emails_from_html finds on the pages
RawBobUpper == <<"B", "@", "x", ".", "i", "o">>
RawBob      == <<"b", "@", "x", ".", "i", "o", ".">>
RawEve      == <<"e", "@", "x", ".", "i", "o">>
RawBad      == <<"b", "@", "x">>
RawEmails == {RawBobUpper, RawBob, RawEve, RawBad}

(***************************************************************************)
(* The site.  A page is what fetch_page and the extractors make of it:     *)
(* html is None unless the status is 200 and the content type is text; a   *)
(* body is represented by the links and raw e-mail strings found in it.    *)
(***************************************************************************)
NotFound == [html |-> FALSE, status_code |-> 404, links |-> {}, raw_emails |-> {}]

\* fetch_page's `except`: (None, 0)
TransportError == [html |-> FALSE, status_code |-> 0, links |-> {}, raw_emails |-> {}]

Body(ls, es) == [html |-> TRUE, status_code |-> 200, links |-> ls, raw_emails |-> es]

Bodies == {Body(ls, es) : ls \in SubsetsUpTo(Urls, MaxLinks),
                          es \in SubsetsUpTo(RawEmails, MaxRaw)}

\* the pages behind the links of the start page
LeafPages == {NotFound, Body({StartUrl}, {RawBob})}

\* sites for the crawl of one Domain
CrawlWebs == {w \in [Urls -> Bodies \cup {NotFound}] :
                \A u \in Urls \ {StartUrl} : w[u] \in LeafPages}

\* sites for the runs of several workers
SmallWebs == {w \in [Urls -> LeafPages \cup {Body(Urls \ {StartUrl}, {RawBobUpper, RawEve})}] :
                /\ w[StartUrl] # Body({StartUrl}, {RawBob})
                /\ \A u \in Urls \ {StartUrl} : w[u] = NotFound}

VARIABLES
    searches,       \* table searches: id -> row
    domains,        \* table domains: id -> row
    pages,          \* table pages: sequence of rows, id = index (AUTO_INCREMENT)
    emails,         \* table emails: sequence of rows, id = index
    web,            \* the site: what each URL serves
    dbUp,           \* the database answers statements
    outages,        \* outages so far
    max_depth,      \* EmailExtractor.max_depth (MAX_DEPTH)
    max_concurrent, \* EmailExtractor.max_concurrent (MAX_CONCURRENT)
    runner,         \* per runner: the process_search call it is in
    crawl,          \* per runner and domain: the crawl_domain call
    background,     \* BackgroundTasks: search ids waiting for run_extraction_worker
    cancelling,     \* cancel_search calls between their two statements
    cancelled,      \* history: crawling domains whose lock fields cancel_search cleared
    dupError,       \* history: an e-mail insert raised on a duplicate key
    http,           \* the last response of pause_search, resume_search, cancel_search
    creating,       \* the create_search call in progress: its position
    calls           \* a pure function applied repeatedly: its input, then its results

\* ids of the rows of the tables searches and domains
SearchIds == DOMAIN searches
DomainIds == DOMAIN domains

vars == <<searches, domains, pages, emails, web, dbUp, outages, max_depth, max_concurrent,
          runner, crawl, background, cancelling, cancelled, dupError, http,
          creating, calls>>

dbVars == <<searches, domains, pages, emails>>
envVars == <<web, dbUp, outages, max_depth, max_concurrent, calls>>


(***************************************************************************)
(* Table rows.                                                             *)
(***************************************************************************)
\* INSERT INTO searches (batch_name, total_domains, status): created_at is the
\* time of the insert, in seconds
NewSearch(n, t) == [status |-> "pending", total_domains |-> n, created_at |-> t]

\* a text is a sequence of characters; a NULL text column is shown empty
NoText == <<>>
Text(n) == [i \in 1..n |-> "e"]

\* str(e) of the exceptions a database statement raises: a short message, and
\* one that is longer than the column is given room for
ErrorTexts == {Text(2), Text(MaxErrorMessage + 1)}

NewDomain(s) ==
    [search_id |-> s, url |-> StartUrl, status |-> "pending",
     pages_crawled |-> 0, emails_found |-> 0, error_message |-> NoText,
     worker_id |-> NULL, locked_at |-> NULL]

\* the unique key of table emails
EmailKey(row) == <<row.domain_id, row.normalized_email>>

DomainsOf(s) == {d \in DomainIds : domains[d].search_id = s}

(***************************************************************************)
(* crawl_domain: local state of one call.                                  *)
(***************************************************************************)
NoCrawl ==
    [pc |-> "none", visited |-> {}, emails_found |-> <<>>, queue |-> <<>>,
     tasks |-> <<>>, fetches |-> [u \in Urls |-> 0], dbFailed |-> FALSE,
     raised |-> FALSE]

\* visited_urls = set(); emails_found = {}; queue = [(0, url)]
NewCrawl(url) ==
    [NoCrawl EXCEPT !.pc = "start", !.queue = <<[depth |-> 0, url |-> url]>>]

\* asyncio.create_task(process_url(depth, current_url))
NewTask(entry) ==
    [depth |-> entry.depth, url |-> entry.url, pc |-> "new", html |-> FALSE,
     status_code |-> 0, page_id |-> 0]

Min(a, b) == IF a <= b THEN a ELSE b

\* The `while queue:` loop, run from (queue, tasks) until it awaits the
\* gather of a full batch or leaves the loop.
RECURSIVE BfsLoop(_, _)
BfsLoop(queue, tasks) ==
    IF queue = <<>>
    THEN [queue |-> queue, tasks |-> tasks, awaiting |-> FALSE]
    ELSE LET batch_size == Min(BatchSize, Len(queue))
             batch == SubSeq(queue, 1, batch_size)
             rest == SubSeq(queue, batch_size + 1, Len(queue))
             ts == tasks \o [i \in 1..batch_size |-> NewTask(batch[i])]
         IN  IF Len(ts) >= BatchSize
             THEN [queue |-> rest, tasks |-> ts, awaiting |-> TRUE]
             ELSE BfsLoop(rest, ts)

\* Where crawl_domain suspends next once the loop has run: the gather of a
\* full batch, the gather of the remaining tasks, the e-mail insert
\* (`if emails_found:`) or the UPDATE to completed.
AfterLoop(c, loop) ==
    LET c1 == [c EXCEPT !.queue = loop.queue, !.tasks = loop.tasks]
    IN  IF loop.awaiting THEN [c1 EXCEPT !.pc = "gather_batch"]
        ELSE IF loop.tasks # <<>> THEN [c1 EXCEPT !.pc = "gather_rest"]
        ELSE IF c1.emails_found # <<>> THEN [c1 EXCEPT !.pc = "flush"]
        ELSE [c1 EXCEPT !.pc = "complete"]

\* `if depth > self.max_depth or current_url in visited_urls: return`
SkipUrl(depth, url, visited) == depth > max_depth \/ url \in visited

\* a fetch that starts without recording the URL as visited
FetchUnmarked(c, url) == [c EXCEPT !.fetches[url] = @ + 1]

\* visited_urls.add(current_url), then the fetch starts
MarkVisited(c, url) ==
    [c EXCEPT !.visited = @ \cup {url}, !.fetches[url] = @ + 1]

\* every raw e-mail with a normalized form recorded, seen before or not
RECURSIVE RecordEveryEmail(_, _, _, _)
RecordEveryEmail(found, raws, url, page_id) ==
    IF raws = <<>> THEN found
    ELSE LET normalized == normalize_email(Head(raws))
             next == IF normalized # <<>>
                     THEN Append(found, [normalized |-> normalized, raw |-> Head(raws),
                                         page_url |-> url, page_id |-> page_id])
                     ELSE found
         IN  RecordEveryEmail(next, Tail(raws), url, page_id)

\* for raw_email in raw_emails: record a normalized form not seen before
RECURSIVE RecordEmails(_, _, _, _)
RecordEmails(found, raws, url, page_id) ==
    IF raws = <<>> THEN found
    ELSE LET normalized == normalize_email(Head(raws))
             seen == \E i \in 1..Len(found) : found[i].normalized = normalized
             next == IF normalized # <<>> /\ ~seen
                     THEN Append(found, [normalized |-> normalized, raw |-> Head(raws),
                                         page_url |-> url, page_id |-> page_id])
                     ELSE found
         IN  RecordEmails(next, Tail(raws), url, page_id)

\* links followed from pages at the depth limit as well
FollowLinksInclusive(depth) == depth <= max_depth

\* `if depth < self.max_depth:` links are extracted and enqueued
FollowLinks(depth) == depth < max_depth

\* the other links ahead of the priority links
OtherLinksFirst(priority_links, other_links) == other_links \o priority_links

\* priority_links + other_links
PriorityFirst(priority_links, other_links) == priority_links \o other_links

\* for link in priority_links + other_links: if link not in visited_urls: append
Enqueue(queue, links, visited, depth) ==
    LET kept == SelectSeq(links, LAMBDA l : l \notin visited)
    IN  queue \o [i \in 1..Len(kept) |-> [depth |-> depth + 1, url |-> kept[i]]]

\* e-mail values that all point at the first page row of the table
EmailValuesFirstPage(d, found) ==
    [i \in 1..Len(found) |->
        [domain_id |-> d, page_id |-> 1,
         raw_email |-> found[i].raw, normalized_email |-> found[i].normalized]]

\* values of the executemany at the end of the crawl
EmailValues(d, found) ==
    [i \in 1..Len(found) |->
        [domain_id |-> d, page_id |-> found[i].page_id,
         raw_email |-> found[i].raw, normalized_email |-> found[i].normalized]]

\* INSERT (without IGNORE): a row whose key is in the table raises
InsertPlain(table, values) ==
    IF \E i \in 1..Len(values) : \E j \in 1..Len(table) : EmailKey(table[j]) = EmailKey(values[i])
    THEN [rows |-> table, raised |-> TRUE]
    ELSE [rows |-> table \o values, raised |-> FALSE]

\* INSERT IGNORE INTO emails: a row whose key is in the table is skipped
RECURSIVE InsertIgnore(_, _)
InsertIgnore(table, values) ==
    IF values = <<>> THEN [rows |-> table, raised |-> FALSE]
    ELSE LET v == Head(values)
             dup == \E j \in 1..Len(table) : EmailKey(table[j]) = EmailKey(v)
         IN  InsertIgnore(IF dup THEN table ELSE Append(table, v), Tail(values))

\* UPDATE domains SET status='crawling', worker_id=%s, locked_at=NOW()
DomainCrawling(row, worker_id) ==
    [row EXCEPT !.status = "crawling", !.worker_id = worker_id, !.locked_at = NOW]

\* a completion that leaves the lock fields as they are
DomainCompletedKeepsLock(row, c) ==
    [row EXCEPT !.status = "completed",
                !.pages_crawled = Cardinality(c.visited),
                !.emails_found = Len(c.emails_found)]

\* UPDATE domains SET status='completed', pages_crawled, emails_found, lock cleared
DomainCompleted(row, c) ==
    [row EXCEPT !.status = "completed",
                !.pages_crawled = Cardinality(c.visited),
                !.emails_found = Len(c.emails_found),
                !.worker_id = NULL, !.locked_at = NULL]

\* str(e)[:500]
Truncated(e) == SubSeq(e, 1, Min(Len(e), MaxErrorMessage))

\* UPDATE domains SET status='failed', error_message, lock cleared
DomainFailed(row, e) ==
    [row EXCEPT !.status = "failed", !.error_message = Truncated(e),
                !.worker_id = NULL, !.locked_at = NULL]


(***************************************************************************)
(* Initial states.                                                         *)
(***************************************************************************)
NoResponse == [op |-> "none", id |-> 0, code |-> 0]
Unobserved == [op |-> "unobserved", id |-> 0, code |-> 0]

\* a runner outside process_search.  error: the last iteration of the worker
\* loop hit an error; sleep: the asyncio.sleep that ended it.
IdleRunner ==
    [pc |-> "idle", search_id |-> 0, domains |-> <<>>, i |-> 0, error |-> FALSE,
     sleep |-> "none"]

\* no create_search call is between its statements
NoCreate == [pc |-> "none", id |-> 0, n |-> 0]

\* create_search has inserted search 1 with n Domain rows, all pending
Created(n) ==
    /\ searches = <<NewSearch(n, 1)>>
    /\ domains = [d \in 1..n |-> NewDomain(1)]
    /\ pages = <<>>
    /\ emails = <<>>
    /\ runner = [r \in Runners |-> IdleRunner]
    /\ crawl = [r \in Runners |-> [d \in 1..n |-> NoCrawl]]
    /\ cancelling = {}
    /\ cancelled = {}
    /\ dupError = FALSE
    /\ http = Unobserved
    /\ creating = NoCreate
    /\ calls = <<>>
    /\ dbUp = TRUE
    /\ outages = 0

\* A search of one domain; create_search has queued run_extraction_worker for
\* it and a worker loop is polling.
Init ==
    /\ Created(1)
    /\ web \in SmallWebs
    /\ max_depth \in 0..MaxDepthLimit
    /\ max_concurrent = 1
    /\ background = <<1>>

\* A search of one domain that only the worker loop processes.
InitCrawl ==
    /\ Created(1)
    /\ web \in CrawlWebs
    /\ max_depth \in 0..MaxDepthLimit
    /\ max_concurrent = 1
    /\ background = <<>>

(***************************************************************************)
(* The database: it may stop answering and come back.                      *)
(***************************************************************************)
DbFail ==
    /\ dbUp /\ outages < MaxOutages
    /\ dbUp' = FALSE
    /\ outages' = outages + 1
    /\ UNCHANGED <<dbVars, web, max_depth, max_concurrent, runner, crawl, background,
                   cancelling, cancelled, dupError, http, creating, calls>>

DbRecover ==
    /\ ~dbUp
    /\ dbUp' = TRUE
    /\ UNCHANGED <<dbVars, web, outages, max_depth, max_concurrent, runner, crawl,
                   background, cancelling, cancelled, dupError, http, creating, calls>>

(***************************************************************************)
(* crawl_domain                                                            *)
(***************************************************************************)
\* Step 1: UPDATE to crawling, then the BFS loop up to its first await.
CrawlBegin(r, d) ==
    LET c == crawl[r][d] IN
    /\ c.pc = "start"
    /\ IF dbUp
       THEN /\ domains' = [domains EXCEPT ![d] = DomainCrawling(@, r)]
            /\ cancelled' = cancelled \ {d}
            /\ crawl' = [crawl EXCEPT ![r][d] = AfterLoop(c, BfsLoop(c.queue, c.tasks))]
       ELSE /\ crawl' = [crawl EXCEPT ![r][d] = [c EXCEPT !.pc = "except", !.dbFailed = TRUE,
                                                            !.raised = TRUE]]
            /\ UNCHANGED <<domains, cancelled>>
    /\ UNCHANGED <<searches, pages, emails, envVars, creating, runner, background, cancelling,
                   dupError, http>>

\* process_url up to `await self.fetch_page(current_url)`
ProcessUrlStart(r, d, t) ==
    LET c == crawl[r][d]
        task == c.tasks[t]
    IN
    /\ c.pc \in {"gather_batch", "gather_rest"}
    /\ task.pc = "new"
    /\ crawl' = [crawl EXCEPT ![r][d] =
          IF SkipUrl(task.depth, task.url, c.visited)
          THEN [c EXCEPT !.tasks[t].pc = "skipped"]
          ELSE [MarkVisited(c, task.url) EXCEPT !.tasks[t].pc = "fetch"]]
    /\ UNCHANGED <<dbVars, envVars, creating, runner, background, cancelling, cancelled, dupError, http>>

\* the row of INSERT INTO pages (domain_id, url, status_code, content_type, error_message)
PageRow(d, url, out) ==
    [domain_id |-> d, url |-> url, status_code |-> out.status_code,
     content_type |-> IF out.html THEN "text/html" ELSE NULL,
     error_message |-> IF out.html THEN NULL ELSE "Failed to fetch"]

\* a page insert that leaves out the pages that could not be fetched
InsertFetchedPage(table, row) == IF row.status_code = 200 THEN Append(table, row) ELSE table

\* INSERT INTO pages: the new row gets the next id
InsertPage(table, row) == Append(table, row)

\* fetch_page(url): what the site serves, or a transport error
FetchResults(url) == {web[url], TransportError}

\* a subtask that stops only when the page has no body
StopWithoutBody(html, page_id) == ~html

\* `if not html or not page_id: return`
StopProcessing(html, page_id) == ~html \/ page_id = 0

\* process_url from the return of fetch_page: the page insert, the e-mails
\* and the links.  fetch_page touches no shared state, so its result is drawn
\* when the subtask resumes.
ProcessUrlFetched(r, d, t) ==
    LET c == crawl[r][d]
        task == c.tasks[t]
    IN
    /\ c.pc \in {"gather_batch", "gather_rest"}
    /\ task.pc = "fetch"
    /\ \E out \in FetchResults(task.url) :
         LET stored == IF dbUp THEN InsertPage(pages, PageRow(d, task.url, out)) ELSE pages
             \* cursor.lastrowid, or None when the insert raised
             page_id == IF dbUp THEN Len(stored) ELSE 0
             done == [c EXCEPT !.tasks[t].pc = "done", !.tasks[t].html = out.html,
                               !.tasks[t].status_code = out.status_code,
                               !.tasks[t].page_id = page_id,
                               !.dbFailed = @ \/ ~dbUp]
             priority_links == {l \in out.links : IsPriority(l)}
             other_links == out.links \ priority_links
         IN  /\ pages' = stored
             /\ IF StopProcessing(out.html, page_id)
                THEN crawl' = [crawl EXCEPT ![r][d] = done]
                ELSE \E raws \in Orders(out.raw_emails) :
                     \E pl \in Orders(priority_links) :
                     \E ol \in Orders(other_links) :
                        crawl' = [crawl EXCEPT ![r][d] =
                            [done EXCEPT
                               !.emails_found = RecordEmails(@, raws, task.url, page_id),
                               !.queue = IF FollowLinks(task.depth)
                                         THEN Enqueue(@, PriorityFirst(pl, ol), done.visited,
                                                      task.depth)
                                         ELSE @]]
    /\ UNCHANGED <<searches, domains, emails, envVars, creating, runner, background, cancelling,
                   cancelled, dupError, http>>

\* subtasks that the crawl creates and does not wait for
NotAwaited(tasks) == TRUE

\* await asyncio.gather(*tasks, return_exceptions=True): every subtask has
\* returned
TasksGathered(tasks) == \A t \in 1..Len(tasks) : tasks[t].pc \in {"done", "skipped"}

\* asyncio.gather(*tasks) returns: the loop goes on after a full batch, and
\* after the remaining tasks the crawl goes to its e-mail insert.
CrawlGathered(r, d) ==
    LET c == crawl[r][d] IN
    /\ c.pc \in {"gather_batch", "gather_rest"}
    /\ TasksGathered(c.tasks)
    /\ crawl' = [crawl EXCEPT ![r][d] =
          IF c.pc = "gather_batch"
          THEN AfterLoop(c, BfsLoop(c.queue, <<>>))
          ELSE [c EXCEPT !.pc = IF c.emails_found # <<>> THEN "flush" ELSE "complete"]]
    /\ UNCHANGED <<dbVars, envVars, creating, runner, background, cancelling, cancelled, dupError, http>>

\* a failed e-mail insert that takes the crawl to its except clause
FlushedOrRaised(c, failed) ==
    IF failed THEN [c EXCEPT !.pc = "except", !.dbFailed = TRUE, !.raised = TRUE]
    ELSE [c EXCEPT !.pc = "complete"]

\* `except Exception as e: logger.error(...)` around the e-mail insert: the
\* crawl goes on to its UPDATE to completed either way
Flushed(c, failed) == [c EXCEPT !.pc = "complete", !.dbFailed = @ \/ failed]

\* Step 3: the executemany of the e-mails; a failure is logged.
CrawlFlush(r, d) ==
    LET c == crawl[r][d]
        res == InsertIgnore(emails, EmailValues(d, c.emails_found))
    IN
    /\ c.pc = "flush"
    /\ emails' = IF dbUp /\ ~res.raised THEN res.rows ELSE emails
    /\ dupError' = (dupError \/ (dbUp /\ res.raised))
    /\ crawl' = [crawl EXCEPT ![r][d] = Flushed(c, ~dbUp)]
    /\ UNCHANGED <<searches, domains, pages, envVars, creating, runner, background, cancelling,
                   cancelled, http>>

\* Step 4: UPDATE to completed; a failure goes to the except clause.
CrawlComplete(r, d) ==
    LET c == crawl[r][d] IN
    /\ c.pc = "complete"
    /\ IF dbUp
       THEN /\ domains' = [domains EXCEPT ![d] = DomainCompleted(@, c)]
            /\ cancelled' = cancelled \ {d}
            /\ crawl' = [crawl EXCEPT ![r][d] = [c EXCEPT !.pc = "done"]]
       ELSE /\ crawl' = [crawl EXCEPT ![r][d] = [c EXCEPT !.pc = "except", !.dbFailed = TRUE,
                                                            !.raised = TRUE]]
            /\ UNCHANGED <<domains, cancelled>>
    /\ UNCHANGED <<searches, pages, emails, envVars, creating, runner, background, cancelling,
                   dupError, http>>

\* except Exception: UPDATE to failed; a failure of that UPDATE is logged.
CrawlExcept(r, d) ==
    LET c == crawl[r][d] IN
    /\ c.pc = "except"
    /\ \E e \in ErrorTexts :
          domains' = IF dbUp THEN [domains EXCEPT ![d] = DomainFailed(@, e)] ELSE domains
    /\ cancelled' = IF dbUp THEN cancelled \ {d} ELSE cancelled
    /\ crawl' = [crawl EXCEPT ![r][d] = [c EXCEPT !.pc = "done", !.dbFailed = @ \/ ~dbUp]]
    /\ UNCHANGED <<searches, pages, emails, envVars, creating, runner, background, cancelling,
                   dupError, http>>


(***************************************************************************)
(* worker.py: get_pending_search and the worker loop                       *)
(***************************************************************************)
\* ORDER BY created_at ASC LIMIT 1: a row with the smallest created_at; rows
\* inserted within the same second tie and any of them may come first
OldestOf(S) == {s \in S : \A t \in S : searches[s].created_at <= searches[t].created_at}

\* SELECT id FROM searches WHERE status='pending'
PendingSearches == {s \in SearchIds : searches[s].status = "pending"}

\* the in_progress searches, whatever their Domains
InProgressAnyDomain == {s \in SearchIds : searches[s].status = "in_progress"}

\* SELECT DISTINCT s.id FROM searches s JOIN domains d ON s.id = d.search_id
\* WHERE s.status='in_progress' AND d.status='pending'
InProgressSearches ==
    {s \in SearchIds : /\ searches[s].status = "in_progress"
                       /\ \E d \in DomainsOf(s) : domains[d].status = "pending"}

\* worker_loop after process_next_search returned False, or after
\* get_pending_search logged an error and returned None: sleep(POLL_INTERVAL)
NothingProcessed(failed) == [IdleRunner EXCEPT !.error = failed, !.sleep = "poll_interval"]

\* process_next_search calls process_search(search_id, WORKER_ID)
Selected(s) == [IdleRunner EXCEPT !.pc = "start", !.search_id = s]

\* get_pending_search, first SELECT: the oldest pending search
WorkerPoll(w) ==
    /\ runner[w].pc = "idle"
    /\ IF ~dbUp THEN runner' = [runner EXCEPT ![w] = NothingProcessed(TRUE)]
       ELSE IF PendingSearches # {}
       THEN \E s \in OldestOf(PendingSearches) : runner' = [runner EXCEPT ![w] = Selected(s)]
       ELSE runner' = [runner EXCEPT ![w] = [IdleRunner EXCEPT !.pc = "poll_in_progress"]]
    /\ UNCHANGED <<dbVars, envVars, creating, crawl, background, cancelling, cancelled, dupError, http>>

\* get_pending_search, second SELECT: the oldest in_progress search that still
\* has a pending Domain, or None
WorkerPollInProgress(w) ==
    /\ runner[w].pc = "poll_in_progress"
    /\ IF ~dbUp THEN runner' = [runner EXCEPT ![w] = NothingProcessed(TRUE)]
       ELSE IF InProgressSearches # {}
       THEN \E s \in OldestOf(InProgressSearches) :
               runner' = [runner EXCEPT ![w] = Selected(s)]
       ELSE runner' = [runner EXCEPT ![w] = NothingProcessed(FALSE)]
    /\ UNCHANGED <<dbVars, envVars, creating, crawl, background, cancelling, cancelled, dupError, http>>

\* api.py: a queued run_extraction_worker task starts
BackgroundStart(b) ==
    /\ runner[b].pc = "idle"
    /\ background # <<>>
    /\ runner' = [runner EXCEPT ![b] = Selected(Head(background))]
    /\ background' = Tail(background)
    /\ UNCHANGED <<dbVars, envVars, creating, crawl, cancelling, cancelled, dupError, http>>

(***************************************************************************)
(* process_search                                                          *)
(***************************************************************************)
\* an UPDATE of the search that changes no row
StatusKept(row, status) == row

\* UPDATE searches SET status=...
SearchStatus(row, status) == [row EXCEPT !.status = status]

\* the Domains of the search that are pending or crawling
UnfinishedDomains(s) ==
    SortedSeq({d \in DomainsOf(s) : domains[d].status \in {"pending", "crawling"}})

\* SELECT id, url FROM domains WHERE search_id=%s AND status='pending' ORDER BY id
PendingDomains(s) == SortedSeq({d \in DomainsOf(s) : domains[d].status = "pending"})

\* a batch of all the tasks from i on
BatchToEnd(ds, i) == {ds[k] : k \in (i + 1)..Len(ds)}

\* batch = tasks[i:i + batch_size]
Batch(ds, i) == {ds[k] : k \in (i + 1)..Min(i + max_concurrent, Len(ds))}

\* asyncio.gather(*batch): the crawl_domain coroutines of the batch start
Dispatch(cr, ds, i) ==
    [d \in DomainIds |-> IF d \in Batch(ds, i) THEN NewCrawl(domains[d].url) ELSE cr[d]]

RunnerStart(r) ==
    LET run == runner[r] IN
    /\ run.pc = "start"
    /\ IF dbUp
       THEN /\ searches' = [searches EXCEPT ![run.search_id] = SearchStatus(@, "in_progress")]
            /\ runner' = [runner EXCEPT ![r].pc = "select"]
       ELSE /\ runner' = [runner EXCEPT ![r].pc = "except"]
            /\ UNCHANGED searches
    /\ UNCHANGED <<domains, pages, emails, envVars, creating, crawl, background, cancelling,
                   cancelled, dupError, http>>

RunnerSelect(r) ==
    LET run == runner[r]
        ds == PendingDomains(run.search_id)
    IN
    /\ run.pc = "select"
    /\ IF ~dbUp
       THEN /\ runner' = [runner EXCEPT ![r].pc = "except"]
            /\ UNCHANGED crawl
       ELSE IF ds = <<>>
       THEN /\ runner' = [runner EXCEPT ![r].pc = "returned"]
            /\ UNCHANGED crawl
       ELSE /\ runner' = [runner EXCEPT ![r].pc = "gather", ![r].domains = ds, ![r].i = 0]
            /\ crawl' = [crawl EXCEPT ![r] = Dispatch(@, ds, 0)]
    /\ UNCHANGED <<dbVars, envVars, creating, background, cancelling, cancelled, dupError, http>>

\* a gather that returns as soon as one crawl of the batch has raised
GatheredOrRaised(cr, batch) ==
    \/ \A d \in batch : cr[d].pc = "done"
    \/ \E d \in batch : cr[d].pc = "done" /\ cr[d].raised

\* asyncio.gather(*batch, return_exceptions=True) returns when every
\* crawl_domain of the batch has returned
Gathered(cr, batch) == \A d \in batch : cr[d].pc = "done"

\* the gather of a batch returns: the next batch starts, or the loop ends
RunnerGather(r) ==
    LET run == runner[r]
        next == run.i + max_concurrent
    IN
    /\ run.pc = "gather"
    /\ Gathered(crawl[r], Batch(run.domains, run.i))
    /\ IF next < Len(run.domains)
       THEN /\ runner' = [runner EXCEPT ![r].i = next]
            /\ crawl' = [crawl EXCEPT ![r] = Dispatch(@, run.domains, next)]
       ELSE /\ runner' = [runner EXCEPT ![r].pc = "complete"]
            /\ UNCHANGED crawl
    /\ UNCHANGED <<dbVars, envVars, creating, background, cancelling, cancelled, dupError, http>>

RunnerComplete(r) ==
    LET run == runner[r] IN
    /\ run.pc = "complete"
    /\ IF dbUp
       THEN /\ searches' = [searches EXCEPT ![run.search_id] = SearchStatus(@, "completed")]
            /\ runner' = [runner EXCEPT ![r].pc = "returned"]
       ELSE /\ runner' = [runner EXCEPT ![r].pc = "except"]
            /\ UNCHANGED searches
    /\ UNCHANGED <<domains, pages, emails, envVars, creating, crawl, background, cancelling,
                   cancelled, dupError, http>>

\* except Exception: UPDATE to failed; a failure of that UPDATE is logged
RunnerExcept(r) ==
    LET run == runner[r] IN
    /\ run.pc = "except"
    /\ searches' = IF dbUp
                   THEN [searches EXCEPT ![run.search_id] = SearchStatus(@, "failed")]
                   ELSE searches
    /\ runner' = [runner EXCEPT ![r].pc = "returned", ![r].error = TRUE]
    /\ UNCHANGED <<domains, pages, emails, envVars, creating, crawl, background, cancelling,
                   cancelled, dupError, http>>

\* worker_loop after process_next_search returned True: sleep(1)
Processed(run) == [IdleRunner EXCEPT !.error = run.error, !.sleep = "one_second"]

\* process_search has returned: the worker loop sleeps and polls again, the
\* background task ends.  The locals of its crawls are gone.
RunnerReturn(r) ==
    /\ runner[r].pc = "returned"
    /\ runner' = [runner EXCEPT ![r] = IF r \in Workers THEN Processed(runner[r])
                                      ELSE IdleRunner]
    /\ crawl' = [crawl EXCEPT ![r] = [d \in DomainIds |-> NoCrawl]]
    /\ UNCHANGED <<dbVars, envVars, creating, background, cancelling, cancelled, dupError, http>>

(***************************************************************************)
(* api.py: pause, resume, cancel                                           *)
(***************************************************************************)
\* The responses of the REST surface: http holds the last one, unless the
\* specification leaves the responses out (Unobserved) and follows the tables
\* only.
Response(op, id, code) ==
    IF http = Unobserved THEN http ELSE [op |-> op, id |-> id, code |-> code]

\* a search id that no row has
MissingId == Len(searches) + 1
RequestIds == SearchIds \cup {MissingId}

\* rows matched by id alone, whatever the status
PausableAnyStatus(s) == s \in SearchIds

\* UPDATE searches SET status='paused' WHERE id=%s AND status='in_progress'
Pausable(s) == s \in SearchIds /\ searches[s].status = "in_progress"

\* UPDATE searches SET status='in_progress' WHERE id=%s AND status='paused'
Resumable(s) == s \in SearchIds /\ searches[s].status = "paused"

\* UPDATE searches SET status='cancelled' WHERE id=%s: rowcount counts the
\* rows the statement changed, and a row that is cancelled already is not
\* changed
Cancellable(s) == s \in SearchIds /\ searches[s].status # "cancelled"

pause_search(s) ==
    /\ IF ~dbUp
       THEN /\ http' = Response("pause", s, 500)
            /\ UNCHANGED searches
       ELSE IF Pausable(s)
       THEN /\ searches' = [searches EXCEPT ![s] = SearchStatus(@, "paused")]
            /\ http' = Response("pause", s, 200)
       ELSE /\ http' = Response("pause", s, 400)
            /\ UNCHANGED searches
    /\ UNCHANGED <<domains, pages, emails, envVars, creating, runner, crawl, background,
                   cancelling, cancelled, dupError>>

resume_search(s) ==
    /\ Len(background) < MaxBackground
    /\ IF ~dbUp
       THEN /\ http' = Response("resume", s, 500)
            /\ UNCHANGED <<searches, background>>
       ELSE IF Resumable(s)
       THEN /\ searches' = [searches EXCEPT ![s] = SearchStatus(@, "in_progress")]
            /\ background' = Append(background, s)
            /\ http' = Response("resume", s, 200)
       ELSE /\ http' = Response("resume", s, 400)
            /\ UNCHANGED <<searches, background>>
    /\ UNCHANGED <<domains, pages, emails, envVars, creating, runner, crawl, cancelling,
                   cancelled, dupError>>

\* first statement of cancel_search, and its 404 when rowcount is 0
cancel_search(s) ==
    /\ s \notin cancelling
    /\ IF ~dbUp
       THEN /\ http' = Response("cancel", s, 500)
            /\ UNCHANGED <<searches, cancelling>>
       ELSE IF Cancellable(s)
       THEN /\ searches' = [searches EXCEPT ![s] = SearchStatus(@, "cancelled")]
            /\ cancelling' = cancelling \cup {s}
            /\ UNCHANGED http
       ELSE /\ http' = Response("cancel", s, 404)
            /\ UNCHANGED <<searches, cancelling>>
    /\ UNCHANGED <<domains, pages, emails, envVars, creating, runner, crawl, background,
                   cancelled, dupError>>

\* UPDATE domains SET worker_id=NULL, locked_at=NULL WHERE ... status='crawling'
Unlock(row) == [row EXCEPT !.worker_id = NULL, !.locked_at = NULL]

\* second statement of cancel_search and its response
cancel_unlock(s) ==
    LET locked == {d \in DomainsOf(s) : domains[d].status = "crawling"} IN
    /\ s \in cancelling
    /\ cancelling' = cancelling \ {s}
    /\ IF dbUp
       THEN /\ domains' = [d \in DomainIds |->
                              IF d \in locked THEN Unlock(domains[d]) ELSE domains[d]]
            /\ cancelled' = cancelled \cup locked
            /\ http' = Response("cancel", s, 200)
       ELSE /\ http' = Response("cancel", s, 500)
            /\ UNCHANGED <<domains, cancelled>>
    /\ UNCHANGED <<searches, pages, emails, envVars, creating, runner, crawl, background, dupError>>

\* SearchCreate.domains as a request carries it: each entry is a domain name
\* or a string of blanks (strings are sequences of characters)
DomainName == <<"a", ".", "t">>
Blank == <<" ", " ">>
DomainLists == UNION {[1..k -> {DomainName, Blank}] : k \in 0..MaxDomains}

\* 'Maximum 10000 domains per batch'
MaxDomainList == 10000

\* validate_domains: an empty list and a list of more than 10000 entries are
\* rejected; then the entries are stripped and the empty ones dropped
validate_domains(v) ==
    [rejected |-> v = <<>> \/ Len(v) > MaxDomainList,
     domains |-> SelectSeq([i \in 1..Len(v) |-> Strip(v[i], {" "})],
                           LAMBDA d : d # <<>>)]

\* CURRENT_TIMESTAMP of an insert: the second of the newest row or a later one
Now == IF searches = <<>> THEN 1 ELSE searches[Len(searches)].created_at

\* create_search up to its first statement: INSERT INTO searches with
\* total_domains = len(search_data.domains); every statement is committed
\* when it returns (autocommit)
create_search(v) ==
    LET n == Len(validate_domains(v).domains) IN
    /\ creating = NoCreate
    /\ Len(searches) < MaxCreated
    /\ IF validate_domains(v).rejected
       THEN /\ http' = Response("create", 0, 422)
            /\ UNCHANGED <<searches, creating>>
       ELSE IF ~dbUp
       THEN /\ http' = Response("create", 0, 500)
            /\ UNCHANGED <<searches, creating>>
       ELSE /\ \E t \in {Now, Now + 1} :
                  searches' = Append(searches, NewSearch(n, t))
            /\ creating' = [pc |-> "insert_domains", id |-> Len(searches) + 1, n |-> n]
            /\ UNCHANGED http
    /\ UNCHANGED <<domains, pages, emails, envVars, runner, crawl, background,
                   cancelling, cancelled, dupError>>

\* second statement of create_search: executemany INSERT INTO domains, one
\* multi-row insert; with an empty list no statement is sent
create_insert_domains ==
    /\ creating.pc = "insert_domains"
    /\ IF dbUp \/ creating.n = 0
       THEN /\ domains' = domains \o [d \in 1..creating.n |-> NewDomain(creating.id)]
            /\ crawl' = [r \in Runners |-> crawl[r] \o [d \in 1..creating.n |-> NoCrawl]]
            /\ creating' = [creating EXCEPT !.pc = "select"]
            /\ UNCHANGED http
       ELSE /\ http' = Response("create", creating.id, 500)
            /\ creating' = NoCreate
            /\ UNCHANGED <<domains, crawl>>
    /\ UNCHANGED <<searches, pages, emails, envVars, runner, background, cancelling,
                   cancelled, dupError>>

\* third statement of create_search (SELECT ... FROM searches), add_task and
\* the response
create_respond ==
    /\ creating.pc = "select"
    /\ creating' = NoCreate
    /\ IF dbUp
       THEN /\ Len(background) < MaxBackground
            /\ background' = Append(background, creating.id)
            /\ http' = Response("create", creating.id, 201)
       ELSE /\ http' = Response("create", creating.id, 500)
            /\ UNCHANGED background
    /\ UNCHANGED <<dbVars, envVars, runner, crawl, cancelling, cancelled, dupError>>

(***************************************************************************)
(* Specifications                                                          *)
(***************************************************************************)
Crawler ==
    \/ \E r \in Runners : \E d \in DomainIds : CrawlBegin(r, d)
    \/ \E r \in Runners : \E d \in DomainIds : \E t \in 1..Len(crawl[r][d].tasks) :
          ProcessUrlStart(r, d, t)
    \/ \E r \in Runners : \E d \in DomainIds : \E t \in 1..Len(crawl[r][d].tasks) :
          ProcessUrlFetched(r, d, t)
    \/ \E r \in Runners : \E d \in DomainIds : CrawlGathered(r, d)
    \/ \E r \in Runners : \E d \in DomainIds : CrawlFlush(r, d)
    \/ \E r \in Runners : \E d \in DomainIds : CrawlComplete(r, d)

SearchRunner ==
    \/ \E r \in Runners : RunnerStart(r)
    \/ \E r \in Runners : RunnerSelect(r)
    \/ \E r \in Runners : RunnerGather(r)
    \/ \E r \in Runners : RunnerComplete(r)
    \/ \E r \in Runners : RunnerReturn(r)

\* database outages and the except clauses they lead to
Failures ==
    \/ DbFail
    \/ DbRecover
    \/ \E r \in Runners : \E d \in DomainIds : CrawlExcept(r, d)
    \/ \E r \in Runners : RunnerExcept(r)

Rest ==
    \/ \E s \in RequestIds : pause_search(s)
    \/ \E s \in RequestIds : resume_search(s)
    \/ \E s \in RequestIds : cancel_search(s)
    \/ \E s \in SearchIds : cancel_unlock(s)

\* A worker loop and the API's background task on the same search, with the
\* REST operations; the database answers every statement.
Next ==
    \/ \E w \in Workers : WorkerPoll(w)
    \/ \E w \in Workers : WorkerPollInProgress(w)
    \/ \E b \in Background : BackgroundStart(b)
    \/ SearchRunner
    \/ Crawler
    \/ Rest

Spec == Init /\ [][Next]_vars

\* One worker loop on a site of linked pages, with database outages.
NextCrawl ==
    \/ \E w \in Workers : WorkerPoll(w)
    \/ \E w \in Workers : WorkerPollInProgress(w)
    \/ SearchRunner
    \/ Crawler
    \/ Failures

SpecCrawl == InitCrawl /\ [][NextCrawl]_vars

\* Two runners (a worker loop and the API's background task) on a search of
\* two domains, crawled one after the other by each runner.
InitDup ==
    /\ Created(2)
    /\ web \in SmallWebs
    /\ max_depth = MaxDepthLimit
    /\ max_concurrent = 1
    /\ background = <<1>>

NextDup ==
    \/ \E w \in Workers : WorkerPoll(w)
    \/ \E w \in Workers : WorkerPollInProgress(w)
    \/ \E b \in Background : BackgroundStart(b)
    \/ SearchRunner
    \/ Crawler

SpecDup == InitDup /\ [][NextDup]_vars

\* One worker loop on a search of two Domains, crawled together or one after
\* the other, with database outages.
InitBatch ==
    /\ Created(2)
    /\ web \in SmallWebs
    /\ max_depth = 0
    /\ max_concurrent \in {1, 2}
    /\ background = <<>>

SpecBatch == InitBatch /\ [][NextCrawl]_vars

\* One worker loop on a search of two Domains crawled together; the start
\* page carries any raw e-mail strings and no link.
InitMaps ==
    /\ Created(2)
    /\ \E es \in SubsetsUpTo(RawEmails, MaxRaw) \ {{}} :
          web = [u \in Urls |-> IF u = StartUrl THEN Body({}, es) ELSE NotFound]
    /\ max_depth = 0
    /\ max_concurrent = 2
    /\ background = <<>>

SpecMaps == InitMaps /\ [][NextCrawl]_vars

SearchStatuses == {"pending", "in_progress", "paused", "completed", "failed", "cancelled"}
DomainStatuses == {"pending", "crawling", "completed", "failed"}

\* rows of table domains for search s: a crawling row holds the lock of its
\* crawler unless cancel_search cleared it
DomainRows(s) ==
    {[NewDomain(s) EXCEPT !.status = st] : st \in DomainStatuses}
    \cup {DomainCrawling(NewDomain(s), "worker-1")}

\* Tables after some searches were created and worked on: MaxRows searches of
\* one Domain each, ids and created_at in creation order; the Domain of a
\* search that is still pending is pending.
TableRows ==
    /\ searches \in [1..MaxRows -> [status : SearchStatuses, total_domains : {1},
                                    created_at : 1..MaxRows]]
    /\ \A s \in 1..(MaxRows - 1) : searches[s].created_at <= searches[s + 1].created_at
    /\ domains \in [1..MaxRows -> UNION {DomainRows(s) : s \in 1..MaxRows}]
    /\ \A d \in 1..MaxRows :
          /\ domains[d].search_id = d
          /\ searches[d].status = "pending" => domains[d].status = "pending"
    /\ pages = <<>>
    /\ emails = <<>>
    /\ runner = [r \in Runners |-> IdleRunner]
    /\ crawl = [r \in Runners |-> [d \in 1..MaxRows |-> NoCrawl]]
    /\ cancelling = {}
    /\ cancelled = {d \in 1..MaxRows : domains[d].status = "crawling"
                                       /\ domains[d].worker_id = NULL}
    /\ dupError = FALSE
    /\ creating = NoCreate
    /\ calls = <<>>
    /\ dbUp = TRUE
    /\ outages = 0
    /\ max_depth = 0
    /\ max_concurrent = 1
    /\ background = <<>>

\* the tables, a site that serves nothing and the responses recorded
Tables ==
    /\ TableRows
    /\ web = [u \in Urls |-> NotFound]
    /\ http = NoResponse

\* The worker loop polling tables that nothing else writes.
NextPoll ==
    \/ \E w \in Workers : WorkerPoll(w)
    \/ \E w \in Workers : WorkerPollInProgress(w)

SpecPoll == Tables /\ [][NextPoll]_vars

\* The REST operations on tables that nothing else writes; the searches were
\* created one second after the other.
InitRest ==
    /\ Tables
    /\ \A s \in SearchIds : searches[s].created_at = s

SpecRest == InitRest /\ [][Rest]_vars

\* The processes started again on tables that hold the Domain of a crawl
\* that was abandoned: a worker loop, the API's background task and the REST
\* operations. The site is one page with an e-mail address on it.
InitAbandoned ==
    /\ TableRows
    /\ \A s \in SearchIds : searches[s].created_at = s
    /\ domains[1].status = "crawling"
    /\ \A d \in DomainIds \ {1} : domains[d].status = "pending"
    /\ web = [u \in Urls |-> IF u = StartUrl THEN Body({}, {RawEve}) ELSE NotFound]
    /\ http = Unobserved

SpecAbandoned == InitAbandoned /\ [][Next]_vars

Create ==
    \/ \E v \in DomainLists : create_search(v)
    \/ create_insert_domains
    \/ create_respond

\* The API from empty tables: searches are created, run by the background
\* task, paused, resumed and cancelled, with database outages. The site is
\* one page with an e-mail address on it.
InitApi ==
    /\ searches = <<>>
    /\ domains = <<>>
    /\ pages = <<>>
    /\ emails = <<>>
    /\ runner = [r \in Runners |-> IdleRunner]
    /\ crawl = [r \in Runners |-> <<>>]
    /\ background = <<>>
    /\ cancelling = {}
    /\ cancelled = {}
    /\ dupError = FALSE
    /\ http = Unobserved
    /\ creating = NoCreate
    /\ calls = <<>>
    /\ dbUp = TRUE
    /\ outages = 0
    /\ web = [u \in Urls |-> IF u = StartUrl THEN Body({}, {RawEve}) ELSE NotFound]
    /\ max_depth = 0
    /\ max_concurrent = 1

NextApi ==
    \/ Create
    \/ \E b \in Background : BackgroundStart(b)
    \/ SearchRunner
    \/ Crawler
    \/ Rest
    \/ Failures

SpecApi == InitApi /\ [][NextApi]_vars

\* The API and a worker loop from empty tables, with no database failure and
\* no pause, resume or cancel: searches are created and run by the worker
\* loop and by the background task that create_search queues.
NextLive ==
    \/ Create
    \/ \E w \in Workers : WorkerPoll(w)
    \/ \E w \in Workers : WorkerPollInProgress(w)
    \/ \E b \in Background : BackgroundStart(b)
    \/ SearchRunner
    \/ Crawler

\* the steps of process_search in runner r
RunnerStep(r) ==
    \/ RunnerStart(r)
    \/ RunnerSelect(r)
    \/ RunnerGather(r)
    \/ RunnerComplete(r)
    \/ RunnerReturn(r)

\* the steps of the crawl_domain call of runner r for Domain d
CrawlStep(r, d) ==
    /\ d \in DomainIds
    /\ \/ CrawlBegin(r, d)
       \/ \E t \in 1..Len(crawl[r][d].tasks) : ProcessUrlStart(r, d, t)
       \/ \E t \in 1..Len(crawl[r][d].tasks) : ProcessUrlFetched(r, d, t)
       \/ CrawlGathered(r, d)
       \/ CrawlFlush(r, d)
       \/ CrawlComplete(r, d)

\* The event loops run every coroutine that can go on: the worker loop polls
\* again after each sleep, a queued background task starts, a request
\* handler continues after each statement, a fetch returns within its
\* timeout, and process_search and crawl_domain go on after each await.
Fairness ==
    /\ \A w \in Workers : WF_vars(WorkerPoll(w)) /\ WF_vars(WorkerPollInProgress(w))
    /\ \A b \in Background : WF_vars(BackgroundStart(b))
    /\ \A r \in Runners : WF_vars(RunnerStep(r))
    /\ \A r \in Runners : \A d \in 1..MaxDomains : WF_vars(CrawlStep(r, d))
    /\ WF_vars(create_insert_domains \/ create_respond)

SpecLive == InitApi /\ [][NextLive]_vars /\ Fairness

\* Nothing runs: the tables are empty and every process is idle.
Idle ==
    /\ searches = <<>>
    /\ domains = <<>>
    /\ pages = <<>>
    /\ emails = <<>>
    /\ runner = [r \in Runners |-> IdleRunner]
    /\ crawl = [r \in Runners |-> <<>>]
    /\ background = <<>>
    /\ cancelling = {}
    /\ cancelled = {}
    /\ dupError = FALSE
    /\ http = Unobserved
    /\ creating = NoCreate
    /\ dbUp = TRUE
    /\ outages = 0
    /\ web = [u \in Urls |-> NotFound]
    /\ max_depth = 0
    /\ max_concurrent = 1

\* normalize_url applied to a URL, and again to its result
InitUrl ==
    /\ Idle
    /\ \E u \in UrlInputs : calls = <<u>>

NormalizeUrl ==
    /\ Len(calls) \in 1..2
    /\ calls' = Append(calls, normalize_url(calls[Len(calls)]))
    /\ UNCHANGED <<dbVars, web, dbUp, outages, max_depth, max_concurrent, runner, crawl,
                   background, cancelling, cancelled, dupError, http, creating>>

SpecUrl == InitUrl /\ [][NormalizeUrl]_vars

\* extract_emails_from_html applied to a page, and normalize_email to what
\* it returns
InitExtract ==
    /\ Idle
    /\ \E page \in EmailPages : calls = <<page>>

ExtractEmails ==
    /\ Len(calls) = 1
    /\ calls' = Append(calls, extract_emails_from_html(calls[1]))
    /\ UNCHANGED <<dbVars, web, dbUp, outages, max_depth, max_concurrent, runner, crawl,
                   background, cancelling, cancelled, dupError, http, creating>>

NormalizeEmails ==
    /\ Len(calls) = 2
    /\ calls' = Append(calls, NormalizedEmails(calls[2]))
    /\ UNCHANGED <<dbVars, web, dbUp, outages, max_depth, max_concurrent, runner, crawl,
                   background, cancelling, cancelled, dupError, http, creating>>

NextExtract == ExtractEmails \/ NormalizeEmails

SpecExtract == InitExtract /\ [][NextExtract]_vars

(***************************************************************************)
(* extract_links: a page is the href values of its <a> and <area> tags.    *)
(***************************************************************************)
\* str.endswith
EndsWith(s, p) == Len(s) >= Len(p) /\ SubSeq(s, Len(s) - Len(p) + 1, Len(s)) = p

Tel == <<"t", "e", "l", ":">>
Javascript == <<"j", "a", "v", "a", "s", "c", "r", "i", "p", "t", ":">>

\* href.startswith(('mailto:', 'tel:', 'javascript:', '#'))
SkippedHref(href) ==
    \E p \in {Mailto, Tel, Javascript, <<"#">>} : StartsWith(href, p)

\* urljoin(base_url, href) for an href that is an http(s) URL with a host,
\* which is returned as it is, or a path that starts with one "/" and has
\* no dot segment, which replaces the path of base_url
urljoin(base_url, href) ==
    IF StartsWith(href, Http) \/ StartsWith(href, Https) THEN href
    ELSE LET base == urlparse(base_url)
         IN  urlunparse(base.scheme, base.netloc, <<>>) \o href

\* extract_domain: parsed.netloc.lower().replace('www.', '')
extract_domain(url) == ReplaceWww(Lower(urlparse(url).netloc))

excluded_extensions ==
    {<<".", "p", "d", "f">>, <<".", "j", "p", "g">>, <<".", "j", "p", "e", "g">>, <<".", "p", "n", "g">>,
     <<".", "g", "i", "f">>, <<".", "c", "s", "s">>, <<".", "j", "s">>, <<".", "i", "c", "o">>,
     <<".", "s", "v", "g">>, <<".", "z", "i", "p">>, <<".", "m", "p", "4">>, <<".", "m", "p", "3">>,
     <<".", "a", "v", "i">>, <<".", "m", "o", "v">>, <<".", "w", "m", "v">>, <<".", "f", "l", "v">>,
     <<".", "w", "e", "b", "m">>, <<".", "d", "o", "c">>, <<".", "d", "o", "c", "x">>, <<".", "x", "l", "s">>,
     <<".", "x", "l", "s", "x">>, <<".", "p", "p", "t">>, <<".", "p", "p", "t", "x">>, <<".", "e", "x", "e">>,
     <<".", "d", "m", "g">>, <<".", "a", "p", "k">>, <<".", "d", "e", "b">>, <<".", "r", "p", "m">>}

\* is_valid_url: a scheme and a host, the host without 'www.' the base
\* domain or under it, and no excluded extension
is_valid_url(url, base_domain) ==
    LET parsed == urlparse(url)
        url_domain == ReplaceWww(Lower(parsed.netloc))
    IN  /\ parsed.scheme # <<>> /\ parsed.netloc # <<>>
        /\ url_domain = base_domain \/ EndsWith(url_domain, <<".">> \o base_domain)
        /\ ~\E ext \in excluded_extensions : EndsWith(Lower(parsed.path), ext)

\* urlunparse((parsed.scheme, parsed.netloc, parsed.path, '', '', ''))
CleanUrl(absolute_url) ==
    LET parsed == urlparse(absolute_url)
    IN  urlunparse(parsed.scheme, parsed.netloc, parsed.path)

extract_links(hrefs, base_url, base_domain) ==
    {clean_url \in {CleanUrl(urljoin(base_url, href)) :
                       href \in {h \in hrefs : ~SkippedHref(h)}} :
        is_valid_url(clean_url, base_domain)}

\* the hrefs of the pages that extract_links is applied to: URLs of the
\* crawled site, of a host under it and of another site, paths on the page's
\* own host, and hrefs that are not links
LinkHosts == {<<"a", ".", "t">>, <<"w", "w", "w", ".", "a", ".", "t">>,
              <<"A", ".", "t">>, <<"t", ".", "a", ".", "t">>, <<"t", ".", "t">>}
LinkPaths == {<<>>, <<"/">>, <<"/", "a">>, <<"/", "a", "/">>, <<"/", "a", "?", "a">>,
              <<"/", "a", "#", "a">>, <<"/", "a", ".", "j", "s">>}
Hrefs ==
    {Https \o host \o path : host \in LinkHosts, path \in LinkPaths}
    \cup {path \in LinkPaths : path # <<>>}
    \cup {<<"#", "a">>, Tel \o <<"1">>, Mailto \o <<"b", "@", "a", ".", "t">>}
BaseUrls == {Https \o <<"a", ".", "t">>, Https \o <<"w", "w", "w", ".", "a", ".", "t", "/">>}
LinkPages ==
    {[hrefs |-> hrefs, base_url |-> base_url] :
        hrefs \in {{f[i] : i \in 1..MaxLinks} : f \in [1..MaxLinks -> Hrefs]},
        base_url \in BaseUrls}

\* extract_links applied to a page of the crawled site, and normalize_url to
\* every link it returns
InitLinks ==
    /\ Idle
    /\ \E page \in LinkPages : calls = <<page>>

ExtractLinks ==
    /\ Len(calls) = 1
    /\ calls' = Append(calls, extract_links(calls[1].hrefs, calls[1].base_url,
                                            extract_domain(calls[1].base_url)))
    /\ UNCHANGED <<dbVars, web, dbUp, outages, max_depth, max_concurrent, runner, crawl,
                   background, cancelling, cancelled, dupError, http, creating>>

NormalizeLinks ==
    /\ Len(calls) = 2
    /\ calls' = Append(calls, [u \in calls[2] |-> normalize_url(u)])
    /\ UNCHANGED <<dbVars, web, dbUp, outages, max_depth, max_concurrent, runner, crawl,
                   background, cancelling, cancelled, dupError, http, creating>>

NextLinks == ExtractLinks \/ NormalizeLinks

SpecLinks == InitLinks /\ [][NextLinks]_vars

(***************************************************************************)
(* Properties                                                              *)
(***************************************************************************)
PagesOf(d) == {i \in 1..Len(pages) : pages[i].domain_id = d}
EmailsOf(d) == {i \in 1..Len(emails) : emails[i].domain_id = d}
InFlight(d) == \E r \in Runners : crawl[r][d].pc \notin {"none", "done"}

\* the subtasks of the crawl have all fetched a body and stored its page
AllFetchedAndStored(c) ==
    /\ c.tasks # <<>>
    /\ \A t \in 1..Len(c.tasks) :
          c.tasks[t].pc = "done" /\ c.tasks[t].html /\ c.tasks[t].page_id # 0

\* C1: with max_depth >= 1, every fetch returning a body and every page insert
\* succeeding, no link enqueued at a depth <= max_depth is still waiting in the
\* queue (never popped, never fetched) once the crawl has gone on to flush its
\* e-mails and complete; a start page linking to two in-scope pages with
\* max_depth = 1 ends with pages_crawled = 3.
C1_QueueDrainedBeforeFlush ==
    \A r \in Runners, d \in DomainIds :
        LET c == crawl[r][d] IN
        (max_depth >= 1 /\ c.pc \in {"flush", "complete", "done"} /\ AllFetchedAndStored(c))
        => /\ \A i \in 1..Len(c.queue) :
                 c.queue[i].depth <= max_depth => c.queue[i].url \in c.visited
           /\ (/\ c.pc = "done" /\ ~c.dbFailed /\ max_depth = 1
               /\ web[StartUrl].links = Urls \ {StartUrl})
              => domains[d].pages_crawled = 3

\* C2: at the step at which process_search returns (by its success path or its
\* failure path), every Domain the run dispatched is completed or failed.
C2_NoCrawlingAfterReturn ==
    [][\A r \in Runners :
          (runner[r].pc # "returned" /\ runner'[r].pc = "returned")
          => \A k \in 1..Len(runner[r].domains) :
                domains'[runner[r].domains[k]].status \in {"completed", "failed"}]_vars

LockSet(row) == row.worker_id # NULL /\ row.locked_at # NULL
LockNull(row) == row.worker_id = NULL /\ row.locked_at = NULL

\* C3 (as claimed): a crawling Domain has worker_id and locked_at set, a
\* pending, completed or failed Domain has both null.
C3_LockMatchesStatus ==
    \A d \in DomainIds :
        /\ domains[d].status = "crawling" => LockSet(domains[d])
        /\ domains[d].status \in {"pending", "completed", "failed"} => LockNull(domains[d])

\* C3 (amended): a pending, completed or failed Domain has worker_id and
\* locked_at null; a crawling Domain has both set, unless cancel_search has
\* cleared them since the Domain became crawling, and then both are null.
C3_LockMatchesStatusUnlessCancelled ==
    \A d \in DomainIds :
        /\ domains[d].status \in {"pending", "completed", "failed"} => LockNull(domains[d])
        /\ (domains[d].status = "crawling" /\ d \notin cancelled) => LockSet(domains[d])
        /\ d \in cancelled => (domains[d].status = "crawling" /\ LockNull(domains[d]))

\* a crawl is in flight on a crawling Domain whose lock cancel_search cleared
C3_Witness ==
    \E d \in DomainIds : d \in cancelled /\ InFlight(d) /\ domains[d].status = "crawling"

\* C4: a Domain with no crawl in flight has pages_crawled equal to the number
\* of its Page rows.
C4_PagesCrawledCountsRows ==
    \A d \in DomainIds :
        ~InFlight(d) => domains[d].pages_crawled = Cardinality(PagesOf(d))

\* C5: a Domain with no crawl in flight has emails_found equal to the number
\* of distinct normalized_email values of its Email rows.
C5_EmailsFoundCountsRows ==
    \A d \in DomainIds :
        ~InFlight(d) =>
            domains[d].emails_found =
                Cardinality({emails[i].normalized_email : i \in EmailsOf(d)})

\* C6: no e-mail insert raises on a duplicate key, and no two rows of table
\* emails have the same (domain_id, normalized_email).
C6_NoDuplicateEmailRows ==
    /\ ~dupError
    /\ \A i, j \in 1..Len(emails) : i # j => EmailKey(emails[i]) # EmailKey(emails[j])

\* both runners have crawled the same Domain and flushed e-mails for it, the
\* second onto the rows of the first
C6_Witness ==
    \E d \in DomainIds :
        /\ \A r \in Runners : crawl[r][d].pc = "done" /\ crawl[r][d].emails_found # <<>>
        /\ Cardinality(EmailsOf(d)) >= 2

\* C7: every Email row references an existing Page row of the same Domain.
C7_EmailPageSameDomain ==
    \A i \in 1..Len(emails) :
        /\ emails[i].page_id \in 1..Len(pages)
        /\ pages[emails[i].page_id].domain_id = emails[i].domain_id

\* both Domains have Email rows, after both runners crawled the second one
C7_Witness ==
    /\ \A d \in DomainIds : EmailsOf(d) # {}
    /\ \E d \in DomainIds : d # 1 /\ \A r \in Runners : crawl[r][d].pc = "done"
    /\ Len(pages) >= 4

\* C8: within one crawl no URL is fetched twice; a URL whose fetch has
\* started is in visited, also after the fetch failed.
C8_FetchedAtMostOnce ==
    \A r \in Runners, d \in DomainIds :
        LET c == crawl[r][d] IN
        /\ \A u \in Urls : c.fetches[u] <= 1 /\ (c.fetches[u] >= 1 => u \in c.visited)
        /\ \A t \in 1..Len(c.tasks) :
              c.tasks[t].pc \in {"fetch", "done"} => c.tasks[t].url \in c.visited
        /\ \A t \in 1..Len(c.tasks) : c.tasks[t].pc = "skipped" => c.fetches[c.tasks[t].url] <= 1

\* a fetch has failed and its URL is in visited, fetched once
C8_Witness ==
    \E r \in Runners, d \in DomainIds : \E t \in 1..Len(crawl[r][d].tasks) :
        LET c == crawl[r][d] IN
        /\ c.tasks[t].pc = "done" /\ ~c.tasks[t].html
        /\ c.tasks[t].url \in c.visited /\ c.fetches[c.tasks[t].url] = 1

\* C9: no URL is fetched at a depth above max_depth, every queue entry is at
\* most at depth max_depth (links are enqueued at depth + 1 from pages at a
\* depth below max_depth only), and with max_depth = 0 the queue never holds
\* more than its initial entry and exactly the start URL is fetched.
C9_DepthBound ==
    \A r \in Runners, d \in DomainIds :
        LET c == crawl[r][d] IN
        /\ \A t \in 1..Len(c.tasks) :
              c.tasks[t].pc \in {"fetch", "done"} => c.tasks[t].depth <= max_depth
        /\ \A i \in 1..Len(c.queue) : c.queue[i].depth \in 0..max_depth
        /\ max_depth = 0 =>
              /\ c.queue \in {<<>>, <<[depth |-> 0, url |-> StartUrl]>>}
              /\ \A u \in Urls \ {StartUrl} : c.fetches[u] = 0
              /\ c.pc \in {"flush", "complete"} => c.fetches[StartUrl] = 1

\* with max_depth = 0 a start page with links was fetched and stored
C9_Witness ==
    \E r \in Runners, d \in DomainIds :
        LET c == crawl[r][d] IN
        /\ max_depth = 0 /\ c.pc = "complete" /\ AllFetchedAndStored(c)
        /\ web[StartUrl].links # {}

\* the fetch of the start URL of the crawl returned no body
StartFetchFailed(c) ==
    /\ c.tasks # <<>>
    /\ c.tasks[1].url = StartUrl /\ c.tasks[1].pc = "done" /\ ~c.tasks[1].html

\* C10: a crawl whose start URL fetch returned a non-200 status or a transport
\* error, and whose database statements succeeded, has inserted exactly one
\* Page row and no Email row, and the Domain is completed.
C10_FailedStartCompletes ==
    \A r \in Runners, d \in DomainIds :
        LET c == crawl[r][d] IN
        (c.pc = "done" /\ ~c.dbFailed /\ StartFetchFailed(c))
        => /\ Cardinality(PagesOf(d)) = 1
           /\ \A i \in PagesOf(d) : pages[i].url = StartUrl /\ pages[i].status_code # 200
           /\ EmailsOf(d) = {}
           /\ domains[d].status = "completed"
           /\ domains[d].pages_crawled = 1 /\ domains[d].emails_found = 0

\* a crawl whose start URL answered 404 is done, no statement having failed
C10_Witness ==
    \E r \in Runners, d \in DomainIds :
        LET c == crawl[r][d] IN
        /\ c.pc = "done" /\ ~c.dbFailed /\ StartFetchFailed(c)
        /\ c.tasks[1].status_code = 404

\* the status changes of a Domain row that the lifecycle allows
StatusPath == {<<"pending", "crawling">>, <<"crawling", "completed">>,
               <<"crawling", "failed">>}

\* C11: a Domain's status changes only along pending -> crawling -> completed
\* or pending -> crawling -> failed: every step that changes a status follows
\* StatusPath, the UPDATE to crawling is applied to a pending row and the
\* UPDATE to completed to a crawling row.
C11_StatusFollowsPath ==
    [][\A d \in DomainIds :
          /\ domains'[d].status # domains[d].status
                => <<domains[d].status, domains'[d].status>> \in StatusPath
          /\ \A r \in Runners :
                /\ (crawl[r][d].pc = "start" /\ crawl'[r][d].pc \notin {"start", "except"})
                      => domains[d].status = "pending"
                /\ (crawl[r][d].pc = "complete" /\ crawl'[r][d].pc = "done")
                      => domains[d].status = "crawling"]_vars

CreatedAt(s) == searches[s].created_at

\* the searches get_pending_search may return: pending ones, and in_progress
\* ones with a pending Domain
Eligible(status) ==
    {s \in SearchIds :
        /\ searches[s].status = status
        /\ status = "in_progress" =>
              \E d \in DomainIds : domains[d].search_id = s /\ domains[d].status = "pending"}

\* C12: get_pending_search returns a pending search of smallest created_at
\* whenever a search is pending; otherwise an in_progress search of smallest
\* created_at among those with a pending Domain; otherwise nothing.  It never
\* returns a paused, cancelled, completed or failed search.
C12_OldestPendingFirst ==
    [][\A w \in Workers :
          LET s == runner'[w].search_id
              returned == runner[w].pc # "start" /\ runner'[w].pc = "start"
              nothing == /\ runner[w].pc \in {"idle", "poll_in_progress"}
                         /\ runner'[w].pc = "idle" /\ ~runner'[w].error
          IN  /\ returned =>
                   /\ searches[s].status \in {"pending", "in_progress"}
                   /\ IF Eligible("pending") # {}
                      THEN /\ s \in Eligible("pending")
                           /\ \A t \in Eligible("pending") : CreatedAt(s) <= CreatedAt(t)
                      ELSE /\ s \in Eligible("in_progress")
                           /\ \A t \in Eligible("in_progress") : CreatedAt(s) <= CreatedAt(t)
              /\ nothing => Eligible("pending") = {} /\ Eligible("in_progress") = {}]_vars

\* the worker has been given the younger of two in_progress searches, the
\* only one with a pending Domain, and no search was pending
C12_Witness ==
    \E w \in Workers : \E s, t \in SearchIds :
        /\ runner[w].pc = "start" /\ runner[w].search_id = s
        /\ searches[s].status = "in_progress" /\ searches[t].status = "in_progress"
        /\ CreatedAt(t) < CreatedAt(s)
        /\ \A d \in DomainIds : domains[d].search_id = t => domains[d].status # "pending"

\* process_search returns from its `if not domains:` branch
ReturnsOnNoDomain(r) == runner[r].pc = "select" /\ runner'[r].pc = "returned"

\* C13: when process_search finds no pending Domain it returns without
\* writing to the search row (neither completed nor failed: the row stays as
\* its UPDATE to in_progress, or a later writer, left it), no step makes a
\* search pending again, and the worker loop selects a search only if it is
\* pending or it is in_progress and one of its Domains is pending.
C13_NoDomainNoWrite ==
    [][/\ \A r \in Runners :
             ReturnsOnNoDomain(r) =>
                /\ {d \in DomainsOf(runner[r].search_id) : domains[d].status = "pending"} = {}
                /\ searches' = searches /\ domains' = domains
                /\ ~runner'[r].error
       /\ \A s \in SearchIds : searches'[s].status = "pending" => searches[s].status = "pending"
       /\ \A w \in Workers :
             (runner[w].pc # "start" /\ runner'[w].pc = "start") =>
                LET s == runner'[w].search_id IN
                \/ searches[s].status = "pending"
                \/ /\ searches[s].status = "in_progress"
                   /\ \E d \in DomainsOf(s) : domains[d].status = "pending"]_vars

\* a process_search call has returned on finding no pending Domain, the search
\* is in_progress and the worker loop, polling again, found nothing to select
C13_Witness ==
    \E r \in Runners : \E w \in Workers :
        /\ runner[r].pc = "returned" /\ runner[r].domains = <<>> /\ ~runner[r].error
        /\ searches[runner[r].search_id].status = "in_progress"
        /\ runner[w].pc = "idle" /\ runner[w].sleep = "poll_interval"

\* C14: when a statement of process_search has raised (the UPDATE to
\* in_progress, the SELECT of pending Domains or the UPDATE to completed),
\* process_search returns to its caller with the search row failed.
C14_RaisedSearchFailed ==
    \A r \in Runners :
        (runner[r].pc = "returned" /\ runner[r].error)
            => searches[runner[r].search_id].status = "failed"

\* crawl_domain has returned through its except clause
CrawlRaised(c) == c.pc = "done" /\ c.raised

\* C15: when the UPDATE to crawling, the BFS loop or the UPDATE to completed
\* of crawl_domain has raised, crawl_domain returns with the Domain row failed,
\* an error_message of at most 500 characters, and worker_id and locked_at
\* null.
C15_RaisedDomainFailed ==
    \A r \in Runners, d \in DomainIds :
        CrawlRaised(crawl[r][d]) =>
            /\ domains[d].status = "failed"
            /\ Len(domains[d].error_message) <= MaxErrorMessage
            /\ LockNull(domains[d])

\* C16: a crawl that failed never takes process_search into its except
\* clause: the gather of a batch returns only when every crawl of the batch
\* has returned, the next batch is then dispatched, the loop ends only when
\* every dispatched crawl has returned, and the UPDATE that follows sets the
\* search to completed whatever the Domains ended as.
C16_CrawlFailureContained ==
    [][\A r \in Runners :
          LET run == runner[r]
              batch == Batch(run.domains, run.i)
          IN  /\ (run.pc = "gather" /\ runner'[r] # run) =>
                    /\ \A d \in batch : crawl[r][d].pc = "done"
                    /\ runner'[r].pc \in {"gather", "complete"}
              /\ (run.pc = "gather" /\ runner'[r].pc = "gather" /\ runner'[r] # run) =>
                    /\ runner'[r].i = run.i + max_concurrent
                    /\ \A k \in 1..Len(run.domains) :
                          (k > runner'[r].i /\ k <= runner'[r].i + max_concurrent)
                             => crawl'[r][run.domains[k]].pc = "start"
              /\ (run.pc = "gather" /\ runner'[r].pc = "complete") =>
                    \A k \in 1..Len(run.domains) : crawl[r][run.domains[k]].pc = "done"
              /\ (run.pc = "complete" /\ runner'[r].pc = "returned") =>
                    searches'[run.search_id].status = "completed"
              /\ (run.pc # "except" /\ runner'[r].pc = "except") =>
                    run.pc \in {"start", "select", "complete"} /\ ~dbUp]_vars

\* process_search has set its search to completed after a crawl of its first
\* batch went through its except clause and a crawl dispatched after it
\* completed
C16_Witness ==
    \E r \in Runners : \E d1, d2 \in DomainIds :
        /\ runner[r].pc = "returned" /\ ~runner[r].error
        /\ searches[runner[r].search_id].status = "completed"
        /\ d1 < d2
        /\ crawl[r][d1].pc = "done" /\ crawl[r][d1].raised /\ domains[d1].status = "failed"
        /\ crawl[r][d2].pc = "done" /\ ~crawl[r][d2].raised /\ domains[d2].status = "completed"

\* C17: an iteration of the worker loop in which the poll or process_search
\* hit an error ends with the poll_interval sleep (the 1-second sleep follows
\* only a search processed without error), and the loop goes on: the worker
\* is back at its poll.
C17_ErrorThenPollInterval ==
    \A w \in Workers :
        /\ runner[w].pc \in {"idle", "poll_in_progress", "start", "select", "gather",
                              "complete", "except", "returned"}
        /\ (runner[w].pc = "idle" /\ runner[w].error) => runner[w].sleep = "poll_interval"
        /\ (runner[w].pc = "idle" /\ runner[w].sleep = "one_second") => ~runner[w].error

\* a request for operation op on search id s is answered at this step
Answered(op, s) == http' # http /\ http'.op = op /\ http'.id = s

\* C18: cancel_search on an existing search answers with the search cancelled,
\* whatever its status was, and with worker_id and locked_at null on every
\* crawling Domain of the search, no Domain status changed; on a search id
\* that does not exist it answers 404 and changes no row.
C18_CancelClearsLocks ==
    [][\A s \in RequestIds :
          Answered("cancel", s) =>
             IF s \in SearchIds
             THEN /\ http'.code = 200
                  /\ searches'[s].status = "cancelled"
                  /\ \A d \in DomainsOf(s) :
                        /\ domains'[d].status = domains[d].status
                        /\ domains[d].status = "crawling" => LockNull(domains'[d])
             ELSE /\ http'.code = 404
                  /\ dbVars' = dbVars]_vars

\* C19: pause_search changes a status only from in_progress to paused and
\* resume_search only from paused to in_progress, queueing a Search Runner;
\* on a search in any other status or on a missing search each answers 400,
\* changes no row and (resume) queues no Search Runner.
C19_PauseResumeGuarded ==
    [][\A s \in RequestIds :
          /\ Answered("pause", s) =>
                IF s \in SearchIds /\ searches[s].status = "in_progress"
                THEN /\ http'.code = 200
                     /\ searches' = [searches EXCEPT ![s].status = "paused"]
                     /\ UNCHANGED <<domains, pages, emails, background>>
                ELSE /\ http'.code = 400
                     /\ UNCHANGED <<dbVars, background>>
          /\ Answered("resume", s) =>
                IF s \in SearchIds /\ searches[s].status = "paused"
                THEN /\ http'.code = 200
                     /\ searches' = [searches EXCEPT ![s].status = "in_progress"]
                     /\ background' = Append(background, s)
                     /\ UNCHANGED <<domains, pages, emails>>
                ELSE /\ http'.code = 400
                     /\ UNCHANGED <<dbVars, background>>
          /\ (s \in SearchIds /\ searches'[s].status # searches[s].status) =>
                \/ searches'[s].status \notin {"paused", "in_progress"}
                \/ /\ searches[s].status = "in_progress" /\ searches'[s].status = "paused"
                   /\ http'.op = "pause"
                \/ /\ searches[s].status = "paused" /\ searches'[s].status = "in_progress"
                   /\ http'.op = "resume"]_vars

\* pause_search has answered 400 for a completed search, after resume_search
\* had put another search back to in_progress and queued its Search Runner
C19_Witness ==
    \E s, t \in SearchIds :
        /\ http = [op |-> "pause", id |-> s, code |-> 400]
        /\ searches[s].status = "completed"
        /\ searches[t].status = "in_progress" /\ background = <<t>>

\* C20: for every search row that create_search has finished with,
\* total_domains equals the number of Domain rows of the search; and no step
\* changes the total_domains of an existing search, nor the set of Domain
\* rows of a search other than the one create_search is inserting.
C20_TotalDomainsIsRowCount ==
    /\ [](\A s \in SearchIds :
             creating.id # s => searches[s].total_domains = Cardinality(DomainsOf(s)))
    /\ [][\A s \in SearchIds :
             /\ searches'[s].total_domains = searches[s].total_domains
             /\ creating.id # s =>
                   {d \in DOMAIN domains' : domains'[d].search_id = s} = DomainsOf(s)]_vars

\* C21: every search that create_search has finished with has between 1 and
\* 10000 Domain rows, as long as the database answered every statement.
C21_DomainRowsInRange ==
    \A s \in SearchIds :
        (creating.id # s /\ outages = 0) =>
            Cardinality(DomainsOf(s)) \in 1..MaxDomainList

\* C22: normalize_url is idempotent: applied to its own result it returns
\* that result.
C22_NormalizeUrlIdempotent == Len(calls) = 3 => calls[3] = calls[2]

\* subtask t of the crawl handles the return of its fetch in this step, with
\* a body and a stored page
Processes(r, d, t) ==
    /\ t \in 1..Len(crawl[r][d].tasks)
    /\ crawl[r][d].tasks[t].pc = "fetch"
    /\ crawl'[r][d].tasks[t].pc = "done"
    /\ crawl'[r][d].tasks[t].html
    /\ crawl'[r][d].tasks[t].page_id # 0

\* C23: a page processed at a depth below max_depth appends to the back of
\* the queue every link of the page that is not in visited at that moment,
\* the links with a priority path token before the others, each at the
\* depth of the page plus one; a page at max_depth appends nothing.
C23_PriorityLinksFirst ==
    [][\A r \in Runners, d \in DomainIds : \A t \in 1..Len(crawl[r][d].tasks) :
          Processes(r, d, t) =>
             LET c == crawl[r][d]
                 task == c.tasks[t]
                 queue == crawl'[r][d].queue
                 added == SubSeq(queue, Len(c.queue) + 1, Len(queue))
             IN  /\ Len(queue) >= Len(c.queue)
                 /\ SubSeq(queue, 1, Len(c.queue)) = c.queue
                 /\ IF task.depth < max_depth
                    THEN /\ {added[i].url : i \in 1..Len(added)}
                               = web[task.url].links \ c.visited
                         /\ \A i \in 1..Len(added) : added[i].depth = task.depth + 1
                         /\ \A i, j \in 1..Len(added) :
                               (i < j /\ IsPriority(added[j].url)) => IsPriority(added[i].url)
                    ELSE added = <<>>]_vars

\* the start page linked to a priority page and to another page, and both
\* are in the queue at depth 1, the priority page first
C23_Witness ==
    \E r \in Runners, d \in DomainIds :
        crawl[r][d].queue = <<[depth |-> 1, url |-> "https://a.test/contact"],
                              [depth |-> 1, url |-> "https://a.test/blog/2024"]>>

\* the crawls of runner r that have started and not returned
ActiveCrawls(r) == {d \in DomainIds : crawl[r][d].pc \notin {"none", "done"}}

\* the crawls that runner r starts in this step
Dispatched(r) ==
    {d \in DomainIds : crawl'[r][d].pc = "start" /\ crawl[r][d].pc # "start"}

\* C24: a run of process_search has at most max_concurrent crawls in
\* progress; the crawls it starts in one step are the next max_concurrent
\* Domains of its list, which is in ascending id order, and it starts them
\* only when every crawl started before has returned.
C24_BatchesInOrder ==
    /\ [](\A r \in Runners : Cardinality(ActiveCrawls(r)) <= max_concurrent)
    /\ [][\A r \in Runners :
             Dispatched(r) # {} =>
                LET ds == runner'[r].domains
                    i == runner'[r].i
                IN  /\ \A k \in 1..(Len(ds) - 1) : ds[k] < ds[k + 1]
                    /\ i % max_concurrent = 0
                    /\ Dispatched(r) =
                          {ds[k] : k \in (i + 1)..Min(i + max_concurrent, Len(ds))}
                    /\ \A k \in 1..i : crawl'[r][ds[k]].pc = "done"
                    /\ ActiveCrawls(r) = {}]_vars

\* with max_concurrent = 1 the crawl of the second Domain has started after
\* the crawl of the first returned
C24_Witness ==
    \E r \in Runners :
        /\ max_concurrent = 1
        /\ runner[r].pc = "gather" /\ runner[r].domains = <<1, 2>> /\ runner[r].i = 1
        /\ crawl[r][1].pc = "done" /\ crawl[r][2].pc = "start"

\* C25: a page that carries b@x.io written with one of the obfuscations, in
\* either case and with any whitespace, or as a mailto: target with a query,
\* yields exactly the address b@x.io after extraction and normalization.
C25_ObfuscatedAddressExtracted ==
    Len(calls) = 3 => calls[3] = {<<"b", "@", "x", ".", "i", "o">>}

\* subtask t of the crawl handles the return of its fetch in this step and
\* its INSERT INTO pages raises
PageInsertFails(r, d, t) ==
    /\ t \in 1..Len(crawl[r][d].tasks)
    /\ crawl[r][d].tasks[t].pc = "fetch"
    /\ crawl'[r][d].tasks[t].pc = "done"
    /\ crawl'[r][d].tasks[t].page_id = 0

\* a subtask of the crawl fetched a body and its page insert raised
PageInsertFailed(r, d) ==
    \E t \in 1..Len(crawl[r][d].tasks) :
        LET task == crawl[r][d].tasks[t]
        IN  task.pc = "done" /\ task.html /\ task.page_id = 0

\* C26: a subtask whose page insert raises records no e-mail and appends
\* nothing to the queue, its URL stays in visited, the other subtasks and
\* the crawl's position are left as they were (the crawl reaches its except
\* clause only from a failed UPDATE of the Domain), and the UPDATE that ends
\* the crawl, when it goes through, sets the Domain to completed.
C26_PageInsertFailureSkipped ==
    [][\A r \in Runners, d \in DomainIds :
          LET c == crawl[r][d] IN
          /\ \A t \in 1..Len(c.tasks) :
                PageInsertFails(r, d, t) =>
                   /\ crawl'[r][d].emails_found = c.emails_found
                   /\ crawl'[r][d].queue = c.queue
                   /\ c.tasks[t].url \in crawl'[r][d].visited
                   /\ crawl'[r][d].visited = c.visited
                   /\ crawl'[r][d].pc = c.pc
                   /\ ~crawl'[r][d].raised
                   /\ pages' = pages
                   /\ \A k \in 1..Len(c.tasks) :
                         k # t => crawl'[r][d].tasks[k] = c.tasks[k]
          /\ (c.pc # "except" /\ crawl'[r][d].pc = "except") =>
                c.pc \in {"start", "complete"} /\ ~dbUp
          /\ (PageInsertFailed(r, d) /\ c.pc = "complete" /\ dbUp
                /\ crawl'[r][d] # c) =>
                /\ crawl'[r][d].pc = "done"
                /\ domains'[d].status = "completed"
                /\ domains'[d].pages_crawled = Cardinality(c.visited)
                /\ domains'[d].emails_found = 0]_vars

\* a crawl whose start page came with a raw e-mail and a link has returned
\* after the page insert raised: nothing was recorded or enqueued, the start
\* page is in visited and the Domain is completed
C26_Witness ==
    \E r \in Runners, d \in DomainIds :
        LET c == crawl[r][d] IN
        /\ c.pc = "done" /\ ~c.raised
        /\ PageInsertFailed(r, d)
        /\ \E t \in 1..Len(c.tasks) :
              /\ c.tasks[t].page_id = 0 /\ c.tasks[t].html
              /\ web[c.tasks[t].url] # NotFound
              /\ web[c.tasks[t].url].raw_emails # {}
              /\ web[c.tasks[t].url].links # {}
              /\ c.tasks[t].url \in c.visited
        /\ max_depth > 0
        /\ c.emails_found = <<>> /\ c.queue = <<>>
        /\ domains[d].status = "completed" /\ domains[d].pages_crawled = 1

\* the e-mails recorded by the crawl are not in the table
NotStored(r, d) ==
    \A i \in 1..Len(crawl[r][d].emails_found) :
        ~\E j \in 1..Len(emails) :
            EmailKey(emails[j]) = <<d, crawl[r][d].emails_found[i].normalized>>

\* C27: when the insert of the e-mails fails the table is left as it was and
\* the crawl goes on to its last UPDATE with its visited set and e-mails
\* map untouched; that UPDATE, when it goes through, sets the Domain to
\* completed with pages_crawled the size of visited and emails_found the
\* size of the e-mails map, whether the e-mails were stored or not.
C27_FlushFailureStillCompleted ==
    [][\A r \in Runners, d \in DomainIds :
          LET c == crawl[r][d] IN
          /\ (c.pc = "flush" /\ crawl'[r][d] # c) =>
                /\ crawl'[r][d].pc = "complete"
                /\ ~crawl'[r][d].raised
                /\ crawl'[r][d].visited = c.visited
                /\ crawl'[r][d].emails_found = c.emails_found
                /\ ~dbUp => emails' = emails
                /\ domains'[d] = domains[d]
          /\ (c.pc = "complete" /\ dbUp /\ crawl'[r][d] # c) =>
                /\ crawl'[r][d].pc = "done"
                /\ domains'[d].status = "completed"
                /\ domains'[d].pages_crawled = Cardinality(c.visited)
                /\ domains'[d].emails_found = Len(c.emails_found)]_vars

\* a crawl has returned after its e-mail insert failed: the Domain is
\* completed and counts an e-mail that the table does not hold
C27_Witness ==
    \E r \in Runners, d \in DomainIds :
        LET c == crawl[r][d] IN
        /\ c.pc = "done" /\ ~c.raised /\ c.dbFailed
        /\ c.emails_found # <<>>
        /\ NotStored(r, d)
        /\ domains[d].status = "completed"
        /\ domains[d].emails_found = Len(c.emails_found)
        /\ domains[d].pages_crawled = Cardinality(c.visited)

\* C28: every URL that extract_links returns is in canonical form:
\* normalize_url leaves it as it is.
C28_LinksCanonical ==
    Len(calls) = 3 => \A u \in DOMAIN calls[3] : calls[3][u] = u

\* a Domain in status crawling that no crawl_domain call is working on
Abandoned(d) ==
    /\ domains[d].status = "crawling"
    /\ \A r \in Runners : crawl[r][d].pc = "none"

\* C29: a Domain left in crawling by an abandoned crawl stays in crawling:
\* no step of the worker loop, of a run of process_search or of a REST
\* operation changes its status, its counters or its error message, and no
\* crawl is started for it.
C29_AbandonedStaysCrawling ==
    [][\A d \in DomainIds :
          Abandoned(d) =>
             /\ domains'[d].status = "crawling"
             /\ domains'[d].pages_crawled = domains[d].pages_crawled
             /\ domains'[d].emails_found = domains[d].emails_found
             /\ domains'[d].error_message = domains[d].error_message
             /\ \A r \in Runners : crawl'[r][d].pc = "none"]_vars

\* the search of an abandoned Domain was resumed and run by the background
\* task, which selected no Domain and returned, and was then cancelled: the
\* Domain is still in crawling
C29_Witness ==
    \E d \in DomainIds : \E b \in Background :
        /\ Abandoned(d)
        /\ runner[b].pc = "returned"
        /\ runner[b].search_id = domains[d].search_id
        /\ searches[domains[d].search_id].status = "cancelled"
        /\ d \in cancelled

\* the subtasks of the crawl that were created and have not returned
Unfinished(c) == {t \in 1..Len(c.tasks) : c.tasks[t].pc \in {"new", "fetch"}}

\* C30: a crawl has at most 50 subtasks in flight; it pops entries from its
\* queue and creates subtasks for them only when no subtask created before
\* is in flight, and it leaves the gather of its subtasks only when all of
\* them have returned.
C30_BatchAwaitedBeforeNextPop ==
    /\ [](\A r \in Runners, d \in DomainIds :
            Cardinality(Unfinished(crawl[r][d])) <= BatchSize)
    /\ [][\A r \in Runners, d \in DomainIds :
             LET c == crawl[r][d]
                 popped == \/ Len(crawl'[r][d].queue) < Len(c.queue)
                           \/ \E t \in 1..Len(crawl'[r][d].tasks) :
                                 /\ crawl'[r][d].tasks[t].pc = "new"
                                 /\ t > Len(c.tasks) \/ c.tasks[t].pc # "new"
             IN  /\ (c.pc # "none" /\ popped) => Unfinished(c) = {}
                 /\ (c.pc \in {"gather_batch", "gather_rest"}
                       /\ crawl'[r][d].pc \notin {"gather_batch", "gather_rest"})
                       => Unfinished(c) = {}]_vars

\* the crawl waits in its gather for a subtask that is fetching, with the
\* queue popped empty
C30_Witness ==
    \E r \in Runners, d \in DomainIds :
        LET c == crawl[r][d] IN
        /\ c.pc = "gather_rest"
        /\ \E t \in Unfinished(c) : c.tasks[t].pc = "fetch"
        /\ c.queue = <<>>

\* the subtasks of a crawl that fetched a body and stored its page
StoredPages(c) ==
    {t \in 1..Len(c.tasks) :
        c.tasks[t].pc = "done" /\ c.tasks[t].html /\ c.tasks[t].page_id # 0}

\* C31: the e-mails map of a crawl holds one entry for each normalized
\* e-mail found on the pages that its subtasks fetched with a body and
\* stored, and no other entry; an entry carries a raw form and the page id
\* of a page of its own crawl that shows it; entries are added by the
\* subtasks of the same crawl only and an entry, once recorded, is never
\* changed.
C31_EmailsMapOnePerAddress ==
    /\ [](\A r \in Runners, d \in DomainIds :
            LET c == crawl[r][d]
                found == c.emails_found
            IN  /\ \A i, j \in 1..Len(found) :
                      found[i].normalized = found[j].normalized => i = j
                /\ \A i \in 1..Len(found) :
                      /\ found[i].normalized = normalize_email(found[i].raw)
                      /\ found[i].normalized # <<>>
                      /\ \E t \in StoredPages(c) :
                            /\ c.tasks[t].url = found[i].page_url
                            /\ c.tasks[t].page_id = found[i].page_id
                            /\ found[i].raw \in web[c.tasks[t].url].raw_emails
                      /\ pages[found[i].page_id].domain_id = d
                /\ \A t \in StoredPages(c) : \A raw \in web[c.tasks[t].url].raw_emails :
                      normalize_email(raw) # <<>> =>
                         \E i \in 1..Len(found) : found[i].normalized = normalize_email(raw))
    /\ [][\A r \in Runners, d \in DomainIds :
             LET found == crawl[r][d].emails_found
                 after == crawl'[r][d].emails_found
             IN  (crawl'[r][d].pc # "none") =>
                    /\ Len(after) >= Len(found)
                    /\ SubSeq(after, 1, Len(found)) = found
                    /\ after # found =>
                          \E t \in 1..Len(crawl[r][d].tasks) : Processes(r, d, t)]_vars

\* two crawls run together have each stored the start page, which shows two
\* raw forms of one e-mail: each map holds one entry, with the page id of
\* its own crawl
C31_Witness ==
    \E r \in Runners : \E d1, d2 \in DomainIds :
        /\ d1 # d2
        /\ web[StartUrl].raw_emails = {RawBobUpper, RawBob}
        /\ Len(crawl[r][d1].emails_found) = 1
        /\ Len(crawl[r][d2].emails_found) = 1
        /\ crawl[r][d1].emails_found[1].page_id # crawl[r][d2].emails_found[1].page_id
        /\ crawl[r][d1].emails_found[1].raw = RawBobUpper
        /\ crawl[r][d2].emails_found[1].raw = RawBob

\* C32: the status of a search that is paused, cancelled, completed or
\* failed is changed only by resume_search (paused to in_progress, with the
\* background task queued) and by cancel_search (to cancelled): no step of
\* process_search writes over it.
C32_RunnerKeepsSettledStatus ==
    [][\A s \in SearchIds :
          (/\ searches[s].status \in {"paused", "cancelled", "completed", "failed"}
           /\ searches'[s].status # searches[s].status) =>
             \/ searches'[s].status = "cancelled"
             \/ /\ searches[s].status = "paused"
                /\ searches'[s].status = "in_progress"
                /\ background' = Append(background, s)]_vars

\* C33: a search in status completed has no Domain in status pending or
\* crawling.
C33_CompletedSearchDomainsDone ==
    \A s \in SearchIds :
        searches[s].status = "completed" =>
           \A d \in DomainsOf(s) : domains[d].status \notin {"pending", "crawling"}

\* the search has its Domain rows and every one is completed or failed
DomainsFinished(s) ==
    /\ DomainsOf(s) # {}
    /\ \A d \in DomainsOf(s) : domains[d].status \in {"completed", "failed"}

\* C34: with a worker loop running, no database failure and no pause or
\* cancel, once create_search has inserted the row of a search of at least
\* one domain, a moment follows at which the search is in status completed
\* with every one of its Domains completed or failed, also when the worker
\* runs process_search on it before its Domain rows are inserted.
C34_CreatedSearchCompletes ==
    \A s \in 1..MaxCreated :
        (creating.pc = "insert_domains" /\ creating.id = s /\ creating.n >= 1)
           ~> (s \in SearchIds /\ searches[s].status = "completed" /\ DomainsFinished(s))

\* create_search has inserted the row of a search of at least one domain and
\* not yet its Domain rows, and the worker loop has already run
\* process_search on it: the search is in_progress and the run has returned
\* with no Domain selected
C34_Witness ==
    \E w \in Workers :
        /\ creating.pc = "insert_domains" /\ creating.n >= 1
        /\ searches[creating.id].status = "in_progress"
        /\ DomainsOf(creating.id) = {}
        /\ runner[w].pc = "returned" /\ runner[w].search_id = creating.id

====
